---- MODULE Spec2Model ----
(***************************************************************************)
(* A model of the Game_Launcher discovery pipeline: the VDF tokenizer and  *)
(* parser, the Steam and Epic scanners, initial_discovery, merge_discovery *)
(* and the settings store, translated from src/launcher/discovery.py,      *)
(* src/launcher/models.py and src/ui/main_window.py; of the entry dialog   *)
(* and the handlers of the main window (src/ui/dialogs.py); and of the     *)
(* launch of a game (src/launcher/launch_win.py, src/utils/launcher.py).   *)
(*                                                                         *)
(* A Python str is a sequence of chunks; a chunk is a TLA+ string holding  *)
(* one character, or a run of letters that the code never looks into.      *)
(* The strings the code looks into (an exec_path, an argument string) are  *)
(* spelled out, one character a chunk.                                     *)
(* Python values are tagged records: [t |-> "str", v |-> chunks],          *)
(* [t |-> "map", v |-> dict], [t |-> "none"], [t |-> "int", v |-> n],      *)
(* [t |-> "list", v |-> seq].  A dict is the sequence of its <<key, value>>*)
(* items in insertion order, as a Python dict keeps them.                  *)
(***************************************************************************)
EXTENDS Integers, Sequences, FiniteSets, TLC

VARIABLES
    vdf_pc,       \* parse_vdf: "idle", "tokenize", "parse", "done", "raised"
    vdf_text,     \* the text given to parse_vdf
    vdf_i,        \* _tokenize_vdf: i
    vdf_tokens,   \* _tokenize_vdf: tokens
    vdf_result,   \* the value parse_vdf returned
    fs_roots,     \* what _steam_registry_paths() returns: the Steam roots
    fs_steam,     \* per directory: its steamapps folder, library index, manifests
    fs_epic,      \* the Epic manifests directory and its files
    fs_folder,    \* the content of an install folder
    call,         \* the function under way and its argument
    st_pc,        \* scan_steam: "idle", "roots", "libs", "manifests", "done", "raised"
    st_max,       \* scan_steam: max_items
    st_root,      \* scan_steam: the number of roots taken from roots
    st_libs,      \* scan_steam: libraries
    st_lib,       \* scan_steam: the number of libraries taken from libraries
    st_man,       \* scan_steam: the number of manifests taken from the glob
    st_results,   \* scan_steam: results
    st_seen,      \* scan_steam: seen
    st_reads,     \* the manifests scan_steam has read, as <<library, position>>
    ep_pc,        \* scan_epic: "idle", "files", "done", "raised"
    ep_max,       \* scan_epic: max_items
    ep_i,         \* scan_epic: the number of manifest paths taken
    ep_results,   \* scan_epic: results
    ep_reads,     \* the positions of the manifests scan_epic has read
    disc_pc,      \* initial_discovery: "idle", "steam", "epic", "done", "raised"
    disc_result,  \* the list initial_discovery returned
    store,        \* SettingsStore.settings.games: the catalog, a list of Game
    saved,        \* the games written in settings.json
    uuids,        \* the number of ids QUuid.createUuid() has given
    as_pc,        \* auto_scan: "idle", "discovery"
    as_msg,       \* the message box auto_scan showed last
    platform,     \* sys.platform: "win32", "linux", "darwin"
    ln_pc,        \* launch: "idle", "build", "start", "returned", "raised";
                  \* launch_game: "launch_path", "done"
    ln_game,      \* the game launch_game was given
    ln_args,      \* the arguments of the call of launch under way
    ln_cmd,       \* what build_cmd returned, per call of launch
    ln_status,    \* what launch returned, per call
    ln_os,        \* the calls made to the host, in order, with its answers
    ln_result     \* what launch_game returned, when it has

vdfVars == <<vdf_pc, vdf_text, vdf_i, vdf_tokens, vdf_result>>
fsVars == <<fs_roots, fs_steam, fs_epic, fs_folder>>
steamVars == <<st_pc, st_max, st_root, st_libs, st_lib, st_man, st_results, st_seen, st_reads>>
epicVars == <<ep_pc, ep_max, ep_i, ep_results, ep_reads>>
discVars == <<disc_pc, disc_result>>
catVars == <<store, saved, uuids, as_pc, as_msg>>
lnVars == <<platform, ln_pc, ln_game, ln_args, ln_cmd, ln_status, ln_os, ln_result>>
vars == <<vdfVars, fsVars, call, steamVars, epicVars, discVars, catVars, lnVars>>

(***************************************************************************)
(* Python values                                                           *)
(***************************************************************************)
PyNone == [t |-> "none"]
PyStr(s) == [t |-> "str", v |-> s]
PyMap(d) == [t |-> "map", v |-> d]
PyInt(n) == [t |-> "int", v |-> n]
PyList(l) == [t |-> "list", v |-> l]

IsStr(x) == x.t = "str"
IsMap(x) == x.t = "map"

\* bool(x): None, "", {}, [] and 0 are false
Truthy(x) ==
    CASE x.t = "none" -> FALSE
      [] x.t = "str"  -> x.v # <<>>
      [] x.t = "map"  -> x.v # <<>>
      [] x.t = "list" -> x.v # <<>>
      [] x.t = "int"  -> x.v # 0
      [] OTHER        -> TRUE

\* a or b
PyOr(a, b) == IF Truthy(a) THEN a ELSE b

(***************************************************************************)
(* dict                                                                    *)
(***************************************************************************)
DictHas(d, k) == \E j \in 1..Len(d) : d[j][1] = k
DictIdx(d, k) == CHOOSE j \in 1..Len(d) : d[j][1] = k
\* d.get(k, default)
DictGet(d, k, default) == IF DictHas(d, k) THEN d[DictIdx(d, k)][2] ELSE default
\* d[k] = v: a new key goes last, a known key keeps its place
DictSetMut(d, k, v) ==
    IF DictHas(d, k) THEN d ELSE Append(d, <<k, v>>)
DictSet(d, k, v) ==
    IF DictHas(d, k) THEN [d EXCEPT ![DictIdx(d, k)] = <<k, v>>]
    ELSE Append(d, <<k, v>>)
DictKeys(d) == {d[j][1] : j \in 1..Len(d)}
\* list(d.values())
DictValues(d) == [j \in 1..Len(d) |-> d[j][2]]

(***************************************************************************)
(* _tokenize_vdf                                                           *)
(***************************************************************************)
WhiteSpace == {"\r", "\n", "\t", " "}
LineEnd == {"\r", "\n"}
BareStop == {"\r", "\n", "\t", " ", "{", "}"}

StringToken(s) == [type |-> "STRING", value |-> s]
LBraceToken == [type |-> "LBRACE"]
RBraceToken == [type |-> "RBRACE"]

\* text[i] of the code (0-based); reading past the end raises IndexError
InText(text, i) == 0 <= i /\ i < Len(text)
CharAt(text, i) == text[i + 1]

\* lines 34-36: the comment runs to the end of the line
RECURSIVE SkipComment(_, _)
SkipComment(text, i) ==
    IF i < Len(text) /\ CharAt(text, i) \notin LineEnd
    THEN SkipComment(text, i + 1)
    ELSE i

\* lines 43-48: after the backslash, the next character is taken as it is
EscapeMut(text, i, buf) ==
    IF InText(text, i + 1)
    THEN [i |-> i + 2, buf |-> Append(buf, CharAt(text, i + 1)), raised |-> FALSE]
    ELSE [i |-> i + 1, buf |-> buf, raised |-> TRUE]
Escape(text, i, buf) ==
    IF i + 1 < Len(text)
    THEN [i |-> i + 2, buf |-> Append(buf, CharAt(text, i + 1)), raised |-> FALSE]
    ELSE [i |-> i + 1, buf |-> buf, raised |-> FALSE]

\* lines 52-53: any other character goes to the value as it is
PlainCharMut(text, i, buf) ==
    [i |-> i + 1,
     buf |-> IF CharAt(text, i) \in WhiteSpace THEN buf ELSE Append(buf, CharAt(text, i))]
PlainChar(text, i, buf) == [i |-> i + 1, buf |-> Append(buf, CharAt(text, i))]

\* lines 41-53: the inner loop of a quoted run, from the character after the quote
RECURSIVE ScanQuoted(_, _, _)
ScanQuoted(text, i, buf) ==
    IF ~(i < Len(text)) THEN [i |-> i, buf |-> buf, raised |-> FALSE]
    ELSE IF CharAt(text, i) = "\\"
         THEN LET e == Escape(text, i, buf)
              IN  IF e.raised THEN e ELSE ScanQuoted(text, e.i, e.buf)
    ELSE IF CharAt(text, i) = "\"" THEN [i |-> i + 1, buf |-> buf, raised |-> FALSE]
    ELSE LET p == PlainChar(text, i, buf) IN ScanQuoted(text, p.i, p.buf)

\* lines 65-67: a bare token runs to the next blank or brace
RECURSIVE ScanBare(_, _)
\* (as if the scan stopped where it started)
ScanBareMut(text, i) == i
ScanBare(text, i) ==
    IF i < Len(text) /\ CharAt(text, i) \notin BareStop
    THEN ScanBare(text, i + 1)
    ELSE i

\* one iteration of the main loop (lines 27-68) at position i < len(text):
\* the new position, the tokens appended, and whether an index was out of range
TokenizeIter(text, i) ==
    LET ch == CharAt(text, i) IN
    IF ch \in WhiteSpace THEN [i |-> i + 1, emit |-> <<>>, raised |-> FALSE]
    ELSE IF ch = "/" /\ i + 1 < Len(text) /\ CharAt(text, i + 1) = "/"
         THEN [i |-> SkipComment(text, i + 2), emit |-> <<>>, raised |-> FALSE]
    ELSE IF ch = "\""
         THEN LET q == ScanQuoted(text, i + 1, <<>>)
              IN  [i |-> q.i, emit |-> <<StringToken(q.buf)>>, raised |-> q.raised]
    ELSE IF ch = "{" THEN [i |-> i + 1, emit |-> <<LBraceToken>>, raised |-> FALSE]
    ELSE IF ch = "}" THEN [i |-> i + 1, emit |-> <<RBraceToken>>, raised |-> FALSE]
    ELSE LET e == ScanBare(text, i)
         IN  [i |-> e, emit |-> <<StringToken(SubSeq(text, i + 1, e))>>, raised |-> FALSE]

\* _tokenize_vdf(text) as a function: the main loop run to its end
RECURSIVE TokenizeFrom(_, _, _)
TokenizeFrom(text, i, tokens) ==
    IF ~(i < Len(text)) THEN tokens
    ELSE LET s == TokenizeIter(text, i)
         IN  TokenizeFrom(text, s.i, tokens \o s.emit)
TokenizeVdf(text) == TokenizeFrom(text, 0, <<>>)

(***************************************************************************)
(* _parse_tokens                                                           *)
(***************************************************************************)
\* lines 82-86: a STRING is the pending key, or the value of the pending key
OnString(result, current_key, value) ==
    IF current_key = PyNone
    THEN [result |-> result, current_key |-> PyStr(value)]
    ELSE [result |-> DictSet(result, current_key.v, PyStr(value)), current_key |-> PyNone]

\* lines 91-93: the nested mapping is bound to the pending key, if there is one
\* (as if a block with no key before it were bound to the empty key)
OnNestedMut(result, current_key, nested) ==
    [result |-> DictSet(result, IF current_key = PyNone THEN <<>> ELSE current_key.v, PyMap(nested)),
     current_key |-> PyNone]
OnNested(result, current_key, nested) ==
    IF current_key # PyNone
    THEN [result |-> DictSet(result, current_key.v, PyMap(nested)), current_key |-> PyNone]
    ELSE [result |-> result, current_key |-> current_key]

\* line 96: "}" ends the scope; the caller goes on after it
OnRBraceMut(idx, result) == [idx |-> idx, result |-> result]
OnRBrace(idx, result) == [idx |-> idx + 1, result |-> result]

\* line 98: the tokens ran out
OnEndMut(idx, result) == [idx |-> idx, result |-> <<>>]
OnEnd(idx, result) == [idx |-> idx, result |-> result]

RECURSIVE ParseTokens(_, _)
RECURSIVE ParseLoop(_, _, _, _)
\* the while loop of lines 79-98, with the locals idx, result and current_key
ParseLoop(tokens, idx, result, current_key) ==
    IF ~(idx < Len(tokens)) THEN OnEnd(idx, result)
    ELSE LET tok == tokens[idx + 1] IN
         IF tok.type = "STRING"
         THEN LET s == OnString(result, current_key, tok.value)
              IN  ParseLoop(tokens, idx + 1, s.result, s.current_key)
         ELSE IF tok.type = "LBRACE"
         THEN LET sub == ParseTokens(tokens, idx + 1)
                  s == OnNested(result, current_key, sub.result)
              IN  ParseLoop(tokens, sub.idx, s.result, s.current_key)
         ELSE IF tok.type = "RBRACE" THEN OnRBrace(idx, result)
         ELSE ParseLoop(tokens, idx + 1, result, current_key)
\* _parse_tokens(tokens, start) -> (idx, result)
ParseTokens(tokens, start) == ParseLoop(tokens, start, <<>>, PyNone)

\* parse_vdf on the tokens of the text (lines 103-106)
ParseVdfTokens(tokens) ==
    IF tokens = <<>> THEN <<>> ELSE ParseTokens(tokens, 0).result
\* parse_vdf(text)
ParseVdf(text) == ParseVdfTokens(TokenizeVdf(text))

(***************************************************************************)
(* The text of VDF files                                                   *)
(***************************************************************************)
\* "s"
Quoted(s) == <<"\"">> \o s \o <<"\"">>
\* the text of a list of "key" "value" pairs
RECURSIVE PairsText(_)
PairsText(pairs) ==
    IF pairs = <<>> THEN <<>>
    ELSE Quoted(pairs[1][1]) \o <<" ">> \o Quoted(pairs[1][2]) \o <<" ">>
         \o PairsText(Tail(pairs))

(***************************************************************************)
(* The files the scanners are run on                                       *)
(***************************************************************************)
\* "key" "value" or "key" { pairs }, nothing for a field that is absent
FieldText(key, value) ==
    IF value = PyNone THEN <<>>
    ELSE IF IsStr(value) THEN <<"\t">> \o Quoted(key) \o <<"\t", "\t">> \o Quoted(value.v) \o <<"\n">>
    ELSE <<"\t">> \o Quoted(key) \o <<"\n", "\t", "{", " ">> \o PairsText(value.v) \o <<"}", "\n">>
\* the text of an appmanifest_*.acf file
ManifestText(wrapped, appid, name, user_config, installdir) ==
    LET body == FieldText(<<"appid">>, appid) \o FieldText(<<"name">>, name)
                \o FieldText(<<"UserConfig">>, user_config)
                \o FieldText(<<"installdir">>, installdir)
    IN  IF wrapped THEN Quoted(<<"AppState">>) \o <<"\n", "{", "\n">> \o body \o <<"}", "\n">>
        ELSE body
\* a manifest file is known by what it holds: the fields, each absent (None),
\* a string or a block of pairs, under "AppState" or at top level
ManifestFile(wrapped, appid, name, user_config, installdir) ==
    [wrapped |-> wrapped, appid |-> appid, name |-> name,
     user_config |-> user_config, installdir |-> installdir]
ManifestFileText(f) == ManifestText(f.wrapped, f.appid, f.name, f.user_config, f.installdir)

\* the text of a libraryfolders.vdf file
RECURSIVE IndexBody(_)
IndexBody(entries) ==
    IF entries = <<>> THEN <<>>
    ELSE FieldText(entries[1][1], entries[1][2]) \o IndexBody(Tail(entries))
IndexText(wrapped, entries) ==
    IF wrapped
    THEN Quoted(<<"libraryfolders">>) \o <<"\n", "{", "\n">> \o IndexBody(entries) \o <<"}", "\n">>
    ELSE IndexBody(entries)
\* a library index is known by what it lists
IndexFileText(f) == IndexText(f.wrapped, f.entries)
\* _read_vdf(path) of a file that holds text; a file that cannot be read gives
\* {} as the empty text does
ReadVdf(text) == ParseVdf(text)

(***************************************************************************)
(* str helpers                                                             *)
(***************************************************************************)
\* str.strip(): blanks off both ends
RECURSIVE LStrip(_)
LStrip(s) == IF s # <<>> /\ s[1] \in WhiteSpace THEN LStrip(Tail(s)) ELSE s
RECURSIVE RStrip(_)
RStrip(s) ==
    IF s # <<>> /\ s[Len(s)] \in WhiteSpace THEN RStrip(SubSeq(s, 1, Len(s) - 1)) ELSE s
Strip(s) == RStrip(LStrip(s))

\* str.lower(): a chunk of one letter is lowered; a chunk of several characters
\* holds no capital
Capitals == <<"A", "B", "C", "D", "E", "F", "G", "H", "I", "J", "K", "L", "M",
              "N", "O", "P", "Q", "R", "S", "T", "U", "V", "W", "X", "Y", "Z">>
Smalls == <<"a", "b", "c", "d", "e", "f", "g", "h", "i", "j", "k", "l", "m",
            "n", "o", "p", "q", "r", "s", "t", "u", "v", "w", "x", "y", "z">>
LowerChar(c) ==
    IF \E k \in 1..Len(Capitals) : Capitals[k] = c
    THEN Smalls[CHOOSE k \in 1..Len(Capitals) : Capitals[k] = c]
    ELSE c
Lower(str) == [j \in 1..Len(str) |-> LowerChar(str[j])]

\* repr() of a str or a dict, and str() of a value
RECURSIVE ReprValue(_)
RECURSIVE ReprItems(_)
ReprValue(x) ==
    IF IsStr(x) THEN <<"'">> \o x.v \o <<"'">>
    ELSE IF IsMap(x) THEN <<"{">> \o ReprItems(x.v) \o <<"}">>
    ELSE IF x.t = "int" THEN <<ToString(x.v)>>
    ELSE IF x.t = "list" THEN <<"[", "]">>
    ELSE <<"None">>
ReprItems(d) ==
    IF d = <<>> THEN <<>>
    ELSE <<"'">> \o d[1][1] \o <<"'", ":", " ">> \o ReprValue(d[1][2])
         \o (IF Len(d) > 1 THEN <<",", " ">> ELSE <<>>) \o ReprItems(Tail(d))
StrOf(x) == IF IsStr(x) THEN x.v ELSE ReprValue(x)

(***************************************************************************)
(* The file system the scanners read                                       *)
(***************************************************************************)
Dirs == {"A", "B"}
\* Path(p) / "steamapps"
SteamApps(p) == p \o <<"/steamapps">>
\* the directory a library path names, "" for a path that names none
LibraryDir(library) ==
    IF Len(library) = 2 /\ library[1] \in Dirs /\ library[2] = "/steamapps"
    THEN library[1] ELSE ""
\* library.exists()
LibraryExists(library) ==
    LibraryDir(library) \in Dirs /\ fs_steam[LibraryDir(library)].steamapps
\* sorted(library.glob("appmanifest_*.acf")): the manifest files in file-name
\* order
LibraryManifests(library) == fs_steam[LibraryDir(library)].manifests

\* the *.exe names there are, in sorted order
ExeOrder == <<"a.exe", "b.exe">>
Sorted(names) == SelectSeq(ExeOrder, LAMBDA n : n \in names)

\* lines 173-178: the first child directory that holds an exe
RECURSIVE FirstNested(_, _)
FirstNested(children, path) ==
    IF children = <<>> THEN PyNone
    ELSE IF children[1].is_dir /\ Sorted(children[1].exes) # <<>>
         THEN PyStr(path \o <<"/", children[1].name, "/", Sorted(children[1].exes)[1]>>)
         ELSE FirstNested(Tail(children), path)
\* folder.glob("*.exe") goes by the name: the files of the folder named *.exe
\* and the child directories so named
DirectMatches(folder) ==
    folder.exes \cup {n \in {folder.children[j].name : j \in 1..Len(folder.children)} :
                         \E k \in 1..Len(ExeOrder) : ExeOrder[k] = n}
\* the guess with the child directories looked into first
GuessFallbackExeMut(folder, path) ==
    IF ~folder.exists \/ ~folder.is_dir THEN PyNone
    ELSE IF FirstNested(folder.children, path) # PyNone THEN FirstNested(folder.children, path)
    ELSE IF Sorted(DirectMatches(folder)) = <<>> THEN PyNone
    ELSE PyStr(path \o <<"/", Sorted(DirectMatches(folder))[1]>>)
\* _guess_fallback_exe(folder), folder being the content found at path
GuessFallbackExe(folder, path) ==
    IF ~folder.exists \/ ~folder.is_dir THEN PyNone
    ELSE IF Sorted(DirectMatches(folder)) = <<>> THEN FirstNested(folder.children, path)
    ELSE PyStr(path \o <<"/", Sorted(DirectMatches(folder))[1]>>)

(***************************************************************************)
(* _library_paths                                                          *)
(***************************************************************************)
\* lines 153-159 with the path field only
LibraryCandidateMut(value) ==
    IF IsMap(value) THEN DictGet(value.v, <<"path">>, PyNone)
    ELSE IF IsStr(value) THEN value
    ELSE PyNone
\* lines 153-159: what one value of the index contributes
LibraryCandidate(value) ==
    IF IsMap(value)
    THEN PyOr(DictGet(value.v, <<"path">>, PyNone),
              DictGet(value.v, <<"libraryfolderpath">>, PyNone))
    ELSE IF IsStr(value) THEN value
    ELSE PyNone
RECURSIVE CollectLibraries(_, _)
CollectLibraries(values, acc) ==
    IF values = <<>> THEN [paths |-> acc, raised |-> FALSE]
    ELSE LET value == values[1]
             candidate == LibraryCandidate(value)
         IN  IF IsMap(value) /\ ~Truthy(candidate) THEN CollectLibraries(Tail(values), acc)
             \* Path(candidate) takes a str only
             ELSE IF ~IsStr(candidate) THEN [paths |-> acc, raised |-> TRUE]
             ELSE CollectLibraries(Tail(values), Append(acc, candidate.v))
\* _library_paths(steam_root): the paths listed, or an exception raised
LibraryPaths(root) ==
    LET index == fs_steam[root].index IN
    IF ~index.exists THEN [paths |-> <<>>, raised |-> FALSE]
    ELSE LET data == ReadVdf(IndexFileText(index))
             wrapped == DictGet(data, <<"libraryfolders">>, PyNone)
             top == IF Truthy(wrapped) THEN wrapped ELSE PyMap(data)
         IN  IF IsMap(top) THEN CollectLibraries(DictValues(top.v), <<>>)
             ELSE [paths |-> <<>>, raised |-> FALSE]
\* lines 188-190
Libraries(root, paths) ==
    <<SteamApps(<<root>>)>> \o [j \in 1..Len(paths) |-> SteamApps(paths[j])]

(***************************************************************************)
(* scan_steam                                                              *)
(***************************************************************************)
\* lines 17-20: URI_TEMPLATES, spelled out as build_cmd and _detect_kind look
\* into the exec_path
UriSteam(appid) ==
    <<"s", "t", "e", "a", "m", ":", "/", "/", "r", "u", "n", "g", "a", "m", "e", "i", "d", "/">>
    \o appid
UriEpic(name) ==
    <<"c", "o", "m", ".", "e", "p", "i", "c", "g", "a", "m", "e", "s", ".">>
    \o <<"l", "a", "u", "n", "c", "h", "e", "r", ":", "/", "/", "a", "p", "p", "s", "/">>
    \o name \o <<"?", "a", "c", "t", "i", "o", "n", "=", "l", "a", "u", "n", "c", "h">>

\* lines 199-200 without the test for "AppState"
SteamNodeMut(data) == data
\* lines 199-200
SteamNode(data) ==
    LET app_state == DictGet(data, <<"AppState">>, PyNone)
    IN  IF IsMap(app_state) THEN app_state.v ELSE data
\* line 203
SteamAppid(node) == Strip(StrOf(DictGet(node, <<"appid">>, PyStr(<<>>))))
\* line 204: node.get("name") or node.get("UserConfig", {}).get("name");
\* a UserConfig that is a str has no get()
SteamName(node) ==
    LET name == DictGet(node, <<"name">>, PyNone)
        user_config == DictGet(node, <<"UserConfig">>, PyMap(<<>>))
    IN  IF Truthy(name) THEN [raised |-> FALSE, value |-> name]
        ELSE IF ~IsMap(user_config) THEN [raised |-> TRUE, value |-> PyNone]
        ELSE [raised |-> FALSE, value |-> DictGet(user_config.v, <<"name">>, PyNone)]
\* line 205
SteamInstallDir(node) == DictGet(node, <<"installdir">>, PyNone)
\* line 206
SteamRequired(appid, name, install_dir) ==
    appid # <<>> /\ Truthy(name) /\ Truthy(install_dir)
\* lines 212-223
SteamEntry(appid, name, install_dir, library) ==
    [name |-> name,
     exec_path |-> PyStr(UriSteam(appid)),
     kind |-> "steam",
     steam_appid |-> PyStr(appid),
     epic_appname |-> PyNone,
     tags |-> <<<<"Steam">>>>,
     fallback_exe |-> GuessFallbackExe(fs_folder, library \o <<"/common/">> \o install_dir.v)]

\* line 209 with the set never looked into
AlreadySeenMut(key, seen) == FALSE
\* line 209: key in seen
AlreadySeen(key, seen) == key \in seen

\* lines 198-223 for one manifest: "raise", "skip" (a field is missing), "dup"
\* (the key is in seen) or "emit"
SteamOutcome(manifest, library, seen) ==
    LET node == SteamNode(ReadVdf(ManifestFileText(manifest)))
        appid == SteamAppid(node)
        name == SteamName(node)
        install_dir == SteamInstallDir(node)
        key == <<"steam", appid>>
    IN  IF name.raised THEN [kind |-> "raise", key |-> key]
        ELSE IF ~SteamRequired(appid, name.value, install_dir)
             THEN [kind |-> "skip", key |-> key]
        ELSE IF AlreadySeen(key, seen) THEN [kind |-> "dup", key |-> key]
        \* library / "common" / install_dir takes a str only
        ELSE IF ~IsStr(install_dir) THEN [kind |-> "raise", key |-> key]
        ELSE [kind |-> "emit", key |-> key,
              entry |-> SteamEntry(appid, name.value, install_dir, library)]

\* line 196 with > for >=
LimitReachedMut(results, max_items) == Len(results) > max_items
\* line 196
LimitReached(results, max_items) == Len(results) >= max_items

\* lines 183-187: the call of scan_steam(max_items)
BeginScanSteam(max_items) ==
    /\ st_pc' = "roots"
    /\ st_max' = max_items
    /\ st_root' = 0
    /\ st_libs' = <<>>
    /\ st_lib' = 0
    /\ st_man' = 0
    /\ st_results' = <<>>
    /\ st_seen' = {}
    /\ st_reads' = <<>>

\* line 187: the next root and its libraries, or line 224 when there is none
ScanSteamRoot ==
    /\ st_pc = "roots"
    /\ IF st_root >= Len(fs_roots)
       THEN /\ st_pc' = "done"
            /\ UNCHANGED <<st_root, st_libs, st_lib>>
       ELSE LET root == fs_roots[st_root + 1]
                listed == LibraryPaths(root)
            IN  /\ st_root' = st_root + 1
                /\ st_lib' = 0
                /\ st_libs' = Libraries(root, listed.paths)
                /\ st_pc' = IF listed.raised THEN "raised" ELSE "libs"
    /\ UNCHANGED <<st_max, st_man, st_results, st_seen, st_reads>>
    /\ UNCHANGED <<vdfVars, fsVars, lnVars, catVars, call, epicVars, discVars>>

\* lines 192-195: the next library, skipped when it does not exist
ScanSteamLibrary ==
    /\ st_pc = "libs"
    /\ IF st_lib >= Len(st_libs)
       THEN /\ st_pc' = "roots"
            /\ UNCHANGED <<st_lib, st_man>>
       ELSE /\ st_lib' = st_lib + 1
            /\ st_man' = 0
            /\ st_pc' = IF LibraryExists(st_libs[st_lib + 1]) THEN "manifests" ELSE "libs"
    /\ UNCHANGED <<st_max, st_root, st_libs, st_results, st_seen, st_reads>>
    /\ UNCHANGED <<vdfVars, fsVars, lnVars, catVars, call, epicVars, discVars>>

\* lines 195-223: one manifest of the library
ScanSteamManifest ==
    /\ st_pc = "manifests"
    /\ LET library == st_libs[st_lib]
           manifests == LibraryManifests(library)
       IN  IF st_man >= Len(manifests)
           THEN /\ st_pc' = "libs"
                /\ UNCHANGED <<st_man, st_results, st_seen, st_reads>>
           ELSE IF LimitReached(st_results, st_max)
           THEN /\ st_pc' = "done"
                /\ UNCHANGED <<st_man, st_results, st_seen, st_reads>>
           ELSE LET o == SteamOutcome(manifests[st_man + 1], library, st_seen)
                IN  /\ st_man' = st_man + 1
                    /\ st_reads' = Append(st_reads, <<library, st_man + 1>>)
                    /\ st_pc' = IF o.kind = "raise" THEN "raised" ELSE "manifests"
                    /\ st_seen' = IF o.kind = "emit" THEN st_seen \cup {o.key} ELSE st_seen
                    /\ st_results' = IF o.kind = "emit" THEN Append(st_results, o.entry)
                                     ELSE st_results
    /\ UNCHANGED <<st_max, st_root, st_libs, st_lib>>
    /\ UNCHANGED <<vdfVars, fsVars, lnVars, catVars, call, epicVars, discVars>>

(***************************************************************************)
(* scan_epic                                                               *)
(***************************************************************************)
\* _epic_manifest_paths(): the *.json, *.item and *.manifest files, each
\* sorted, in that order
EpicManifestPaths == IF fs_epic.exists THEN fs_epic.files ELSE <<>>

\* lines 253-262
EpicEntry(app_name, display_name, install_location) ==
    [name |-> display_name,
     exec_path |-> PyStr(UriEpic(StrOf(app_name))),
     kind |-> "epic",
     steam_appid |-> PyNone,
     epic_appname |-> app_name,
     tags |-> <<<<"Epic">>>>,
     fallback_exe |-> IF Truthy(install_location)
                      THEN GuessFallbackExe(fs_folder, install_location.v)
                      ELSE PyNone]

\* lines 242-262 for one manifest file: "skip" (not read, not JSON, or a field
\* missing), "raise" or "emit"
EpicOutcome(file) ==
    IF ~file.ok THEN [kind |-> "skip"]
    \* data.get: only a dict has it
    ELSE IF ~IsMap(file.data) THEN [kind |-> "raise"]
    ELSE LET data == file.data.v
             app_name == PyOr(DictGet(data, <<"AppName">>, PyNone),
                              DictGet(data, <<"CatalogItemId">>, PyNone))
             display_name == PyOr(DictGet(data, <<"DisplayName">>, PyNone),
                                  DictGet(data, <<"AppTitle">>, PyNone))
             install_location == PyOr(DictGet(data, <<"InstallLocation">>, PyNone),
                                      DictGet(data, <<"InstallFolder">>, PyNone))
         IN  IF ~(Truthy(app_name) /\ Truthy(display_name)) THEN [kind |-> "skip"]
             \* Path(install_location) takes a str only
             ELSE IF Truthy(install_location) /\ ~IsStr(install_location)
                  THEN [kind |-> "raise"]
             ELSE [kind |-> "emit",
                   entry |-> EpicEntry(app_name, display_name, install_location)]

\* line 238: the call of scan_epic(max_items)
BeginScanEpic(max_items) ==
    /\ ep_pc' = "files"
    /\ ep_max' = max_items
    /\ ep_i' = 0
    /\ ep_results' = <<>>
    /\ ep_reads' = <<>>

\* lines 239-263: one manifest path, or the end of the loop
ScanEpicFile ==
    /\ ep_pc = "files"
    /\ IF ep_i >= Len(EpicManifestPaths) \/ LimitReached(ep_results, ep_max)
       THEN /\ ep_pc' = "done"
            /\ UNCHANGED <<ep_i, ep_results, ep_reads>>
       ELSE LET o == EpicOutcome(EpicManifestPaths[ep_i + 1])
            IN  /\ ep_i' = ep_i + 1
                /\ ep_reads' = Append(ep_reads, ep_i + 1)
                /\ ep_pc' = IF o.kind = "raise" THEN "raised" ELSE "files"
                /\ ep_results' = IF o.kind = "emit" THEN Append(ep_results, o.entry)
                                 ELSE ep_results
    /\ UNCHANGED ep_max
    /\ UNCHANGED <<vdfVars, fsVars, lnVars, catVars, call, steamVars, discVars>>

(***************************************************************************)
(* initial_discovery                                                       *)
(***************************************************************************)
Max(a, b) == IF a >= b THEN a ELSE b

\* line 274: (kind, steam_appid or epic_appname or exec_path)
EntryKey(entry) ==
    <<entry.kind, PyOr(PyOr(entry.steam_appid, entry.epic_appname), entry.exec_path)>>

\* lines 272-277 without the test of line 275: the last entry of each key
RECURSIVE DedupedMut(_, _)
DedupedMut(combined, deduped) ==
    IF combined = <<>> THEN DictValues(deduped)
    ELSE DedupedMut(Tail(combined), DictSet(deduped, EntryKey(combined[1]), combined[1]))
\* lines 272-277: the first entry of each key, in the order the keys came
RECURSIVE Deduped(_, _)
Deduped(combined, deduped) ==
    IF combined = <<>> THEN DictValues(deduped)
    ELSE Deduped(Tail(combined),
                 IF DictHas(deduped, EntryKey(combined[1])) THEN deduped
                 ELSE DictSet(deduped, EntryKey(combined[1]), combined[1]))

\* line 268
Remaining(limit, steam) == Max(0, limit - Len(steam))

\* line 266: limit, 300 when the caller gives none as auto_scan does
DefaultLimit == 300
DiscoveryLimit == IF call[1] = "initial_discovery" THEN call[2] ELSE DefaultLimit

\* the test calls scan_steam(max_items)
ScanSteamCall ==
    /\ call[1] = "scan_steam"
    /\ st_pc = "idle"
    /\ BeginScanSteam(call[2])
    /\ UNCHANGED <<vdfVars, fsVars, lnVars, catVars, call, epicVars, discVars>>

\* the test calls scan_epic(max_items)
ScanEpicCall ==
    /\ call[1] = "scan_epic"
    /\ ep_pc = "idle"
    /\ BeginScanEpic(call[2])
    /\ UNCHANGED <<vdfVars, fsVars, lnVars, catVars, call, steamVars, discVars>>

\* line 267: initial_discovery(limit) calls scan_steam(limit)
InitialDiscoveryCall ==
    /\ call[1] = "initial_discovery"
    /\ disc_pc = "idle"
    /\ disc_pc' = "steam"
    /\ BeginScanSteam(DiscoveryLimit)
    /\ UNCHANGED <<vdfVars, fsVars, lnVars, catVars, call, epicVars, disc_result>>

\* lines 268-269: scan_steam returned; scan_epic(remaining) is called
DiscoveryScanEpic ==
    /\ disc_pc = "steam"
    /\ st_pc = "done"
    /\ disc_pc' = "epic"
    /\ BeginScanEpic(Remaining(DiscoveryLimit, st_results))
    /\ UNCHANGED <<vdfVars, fsVars, lnVars, catVars, call, steamVars, disc_result>>

\* lines 271-277: scan_epic returned; the combined list is deduplicated
DiscoveryReturn ==
    /\ disc_pc = "epic"
    /\ ep_pc = "done"
    /\ disc_pc' = "done"
    /\ disc_result' = Deduped(st_results \o ep_results, <<>>)
    /\ UNCHANGED <<vdfVars, fsVars, lnVars, catVars, call, steamVars, epicVars>>

\* a scanner raised: the exception leaves initial_discovery
DiscoveryRaise ==
    /\ \/ disc_pc = "steam" /\ st_pc = "raised"
       \/ disc_pc = "epic" /\ ep_pc = "raised"
    /\ disc_pc' = "raised"
    /\ UNCHANGED <<vdfVars, fsVars, lnVars, catVars, call, steamVars, epicVars, disc_result>>

(***************************************************************************)
(* Game, discovery_key, SettingsStore, to_game, merge_discovery            *)
(***************************************************************************)
\* models.py lines 13-28: Game(...), the fields not given at their defaults
Game(id, name, exec_path, kind, steam_appid, epic_appname, tags, fallback_exe) ==
    [id |-> id, name |-> name, exec_path |-> exec_path, args |-> PyNone,
     working_dir |-> PyNone, favorite |-> FALSE, tags |-> tags, cover |-> PyNone,
     kind |-> kind, steam_appid |-> steam_appid, epic_appname |-> epic_appname,
     run_as_admin |-> FALSE, fallback_exe |-> fallback_exe]

\* models.py lines 125-130 with the id for the key
DiscoveryKeyMut(game) == <<"id", game.id>>
\* models.py lines 125-130
DiscoveryKey(game) ==
    IF game.kind = "steam" /\ Truthy(game.steam_appid) THEN <<"steam", game.steam_appid>>
    ELSE IF game.kind = "epic" /\ Truthy(game.epic_appname) THEN <<"epic", game.epic_appname>>
    ELSE <<"path", PyStr(Lower(game.exec_path.v))>>

\* models.py lines 110-112 with ids compared for keys
ContainsMut(games, candidate) == \E j \in 1..Len(games) : games[j].id = candidate.id
\* models.py lines 110-112: SettingsStore.contains
Contains(games, candidate) ==
    \E j \in 1..Len(games) : DiscoveryKey(games[j]) = DiscoveryKey(candidate)

\* models.py lines 88-93: the games list after add_many(games)
RECURSIVE AddMany(_, _)
AddMany(catalog, games) ==
    IF games = <<>> THEN catalog
    ELSE AddMany(IF Contains(catalog, games[1]) THEN catalog ELSE Append(catalog, games[1]),
                 Tail(games))

\* discovery.py lines 280-291
ToGame(entry) ==
    Game(PyOr(PyOr(entry.steam_appid, entry.epic_appname), entry.exec_path),
         entry.name, entry.exec_path, entry.kind, entry.steam_appid, entry.epic_appname,
         entry.tags, entry.fallback_exe)

\* discovery.py lines 296-299: the last game of each key, at the place of the first
RECURSIVE Unique(_, _)
Unique(new_games, unique) ==
    IF new_games = <<>> THEN DictValues(unique)
    ELSE Unique(Tail(new_games), DictSet(unique, DiscoveryKey(new_games[1]), new_games[1]))
\* discovery.py lines 294-299
MergeDiscovery(games) == Unique([j \in 1..Len(games) |-> ToGame(games[j])], <<>>)

(***************************************************************************)
(* MainWindow.auto_scan                                                    *)
(***************************************************************************)
\* str(QtCore.QUuid.createUuid()), the n-th id given
Uuid(n) == PyStr(<<"uuid", ToString(n)>>)
\* game.clone(id=...)
Clone(game, id) == [game EXCEPT !.id = id]
\* main_window.py lines 119-123: the games the store does not contain, each
\* cloned under a new id; n ids were given before
RECURSIVE NewGames(_, _, _)
NewGames(games, catalog, n) ==
    IF games = <<>> THEN <<>>
    ELSE IF Contains(catalog, games[1]) THEN NewGames(Tail(games), catalog, n)
    ELSE <<Clone(games[1], Uuid(n + 1))>> \o NewGames(Tail(games), catalog, n + 1)

\* main_window.py lines 105-108: auto_scan calls initial_discovery()
AutoScanCall ==
    /\ call[1] \in {"auto_scan", "main_window"}
    /\ as_pc = "idle"
    /\ as_pc' = "discovery"
    /\ disc_pc' = "steam"
    /\ disc_result' = <<>>
    /\ BeginScanSteam(DiscoveryLimit)
    /\ ep_pc' = "idle" /\ ep_max' = 0 /\ ep_i' = 0 /\ ep_results' = <<>> /\ ep_reads' = <<>>
    /\ UNCHANGED <<vdfVars, fsVars, lnVars, call, store, saved, uuids, as_msg>>

\* main_window.py lines 109-114: initial_discovery raised
AutoScanFailed ==
    /\ as_pc = "discovery"
    /\ disc_pc = "raised"
    /\ as_msg' = <<"critical">>
    /\ as_pc' = "idle"
    /\ UNCHANGED <<vdfVars, fsVars, lnVars, call, steamVars, epicVars, discVars, store, saved, uuids>>

\* main_window.py lines 118-129: initial_discovery returned found
AutoScanMerge ==
    /\ as_pc = "discovery"
    /\ disc_pc = "done"
    /\ LET games == MergeDiscovery(disc_result)
           new_games == NewGames(games, store, uuids)
           after == AddMany(store, new_games)
           added == Len(after) - Len(store)
       IN  /\ uuids' = uuids + Len(new_games)
           /\ store' = after
           \* models.py lines 94-95
           /\ saved' = IF added # 0 THEN after ELSE saved
           /\ as_msg' = IF added # 0 THEN <<"added", added>> ELSE <<"nothing new">>
    /\ as_pc' = "idle"
    /\ UNCHANGED <<vdfVars, fsVars, lnVars, call, steamVars, epicVars, discVars>>

(***************************************************************************)
(* The files the scanners are run on                                       *)
(***************************************************************************)
MaxManifests == 2
MaxEpicFiles == 2
MaxItems == 2

SeqsUpTo(S, n) == UNION {[1..k -> S] : k \in 0..n}
\* the lists of up to n elements: all of good, or one of any put among them
OneAmong(any, good, n) ==
    SeqsUpTo(good, n)
    \cup UNION {{SubSeq(s, 1, k - 1) \o <<a>> \o SubSeq(s, k, Len(s)) :
                    k \in 1..(Len(s) + 1), a \in any} :
                s \in SeqsUpTo(good, n - 1)}

Block(pairs) == PyMap(pairs)
AppidShapes == {PyNone, PyStr(<<>>), PyStr(<<" ">>), PyStr(<<"1">>), PyStr(<<" ", "1", " ">>),
                Block(<<>>)}
NameShapes == {PyNone, PyStr(<<>>), PyStr(<<"N">>), Block(<<>>), Block(<<<<<<"x">>, <<"y">>>>>>)}
UserConfigShapes == {PyNone, PyStr(<<"s">>), Block(<<>>), Block(<<<<<<"name">>, <<"U">>>>>>)}
InstallDirShapes == {PyNone, PyStr(<<>>), PyStr(<<"d">>), Block(<<<<<<"x">>, <<"y">>>>>>)}
\* a manifest of any shape
AnyManifests ==
    {ManifestFile(w, a, n, u, d) :
        w \in BOOLEAN, a \in AppidShapes, n \in NameShapes,
        u \in UserConfigShapes, d \in InstallDirShapes}
\* the manifest of the repository's test, and others of its kind
Manifest1 == ManifestFile(TRUE, PyStr(<<"1">>), PyStr(<<"N">>), PyNone, PyStr(<<"d">>))
Manifest2 == ManifestFile(FALSE, PyStr(<<"2">>), PyNone, Block(<<<<<<"name">>, <<"U">>>>>>), PyStr(<<"e">>))
ManifestPadded == ManifestFile(TRUE, PyStr(<<" ", "1", " ">>), PyStr(<<"M">>), PyNone, PyStr(<<"d">>))
ManifestBadConfig == ManifestFile(TRUE, PyStr(<<"1">>), PyNone, PyStr(<<"s">>), PyStr(<<"d">>))
SomeManifests == {Manifest1, Manifest2, ManifestPadded}

NoIndex == [exists |-> FALSE, wrapped |-> FALSE, entries |-> <<>>]
Index(wrapped, entries) == [exists |-> TRUE, wrapped |-> wrapped, entries |-> entries]
PathBlock(p) == Block(<<<<<<"path">>, <<p>>>>>>)
IndexFiles ==
    {NoIndex,
     Index(TRUE, <<<<<<"0">>, PathBlock("A")>>>>),
     Index(TRUE, <<<<<<"0">>, PathBlock("A")>>, <<<<"1">>, PathBlock("B")>>>>),
     Index(FALSE, <<<<<<"1">>, PyStr(<<"B">>)>>>>)}

NoSteamDir == [steamapps |-> FALSE, index |-> NoIndex, manifests |-> <<>>]
SteamDir(index, manifests) == [steamapps |-> TRUE, index |-> index, manifests |-> manifests]

\* install folders
MissingFolder == [exists |-> FALSE, is_dir |-> FALSE, exes |-> {}, children |-> <<>>]
Folder(exes, children) == [exists |-> TRUE, is_dir |-> TRUE, exes |-> exes, children |-> children]
\* an entry of the folder that is not a file named *.exe; exes are the *.exe
\* right inside it, deeper those further down
Child(name, is_dir, exes) == [name |-> name, is_dir |-> is_dir, exes |-> exes, deeper |-> {}]
DeepChild(name, exes, deeper) == [name |-> name, is_dir |-> TRUE, exes |-> exes, deeper |-> deeper]
ExeFolder == Folder({"b.exe", "a.exe"}, <<>>)
Folders ==
    {MissingFolder,
     [exists |-> TRUE, is_dir |-> FALSE, exes |-> {}, children |-> <<>>],
     Folder({}, <<>>),
     ExeFolder,
     Folder({"b.exe"}, <<Child("bin", TRUE, {"a.exe"})>>),
     Folder({"b.exe"}, <<Child("a.exe", TRUE, {})>>),
     Folder({}, <<DeepChild("bin", {}, {"a.exe"})>>),
     Folder({}, <<DeepChild("doc", {}, {"a.exe"}), Child("bin", TRUE, {"b.exe"})>>),
     Folder({}, <<Child("readme", FALSE, {}), Child("doc", TRUE, {}),
                  Child("bin", TRUE, {"b.exe", "a.exe"}), Child("x64", TRUE, {"a.exe"})>>)}

\* Epic manifest files: not readable or not JSON, or the decoded value
BadFile == [ok |-> FALSE]
Json(data) == [ok |-> TRUE, data |-> data]
RECURSIVE Object(_)
\* the dict of the fields that are present
Object(fields) ==
    IF fields = <<>> THEN <<>>
    ELSE IF fields[1][2] = [t |-> "absent"] THEN Object(Tail(fields))
    ELSE <<<<fields[1][1], fields[1][2]>>>> \o Object(Tail(fields))
Absent == [t |-> "absent"]
EpicObject(app, cat, disp, title, loc, folder) ==
    Json(PyMap(Object(<<<<<<"AppName">>, app>>, <<<<"CatalogItemId">>, cat>>,
                        <<<<"DisplayName">>, disp>>, <<<<"AppTitle">>, title>>,
                        <<<<"InstallLocation">>, loc>>, <<<<"InstallFolder">>, folder>>>>)))
AnyEpicFiles ==
    {BadFile, Json(PyList(<<>>)), Json(PyStr(<<"x">>)), Json(PyInt(5)), Json(PyNone)}
    \cup {EpicObject(app, cat, disp, title, loc, folder) :
            app \in {Absent, PyStr(<<>>), PyStr(<<"A", "p", "p">>), PyInt(5)},
            cat \in {Absent, PyStr(<<"C", "a", "t">>)},
            disp \in {Absent, PyNone, PyStr(<<"Disp">>)},
            title \in {Absent, PyStr(<<"Title">>)},
            loc \in {Absent, PyStr(<<>>), PyStr(<<"dir">>), PyInt(5)},
            folder \in {Absent, PyStr(<<"dir2">>)}}
EpicFile1 == EpicObject(PyStr(<<"A", "p", "p">>), Absent, PyStr(<<"Disp">>), Absent, PyStr(<<"dir">>), Absent)
EpicFile2 == EpicObject(Absent, PyStr(<<"C", "a", "t">>), Absent, PyStr(<<"Title">>), Absent, Absent)
EpicFile1Again == EpicObject(PyStr(<<"A", "p", "p">>), Absent, PyStr(<<"Other">>), Absent, Absent, Absent)
SomeEpicFiles == {EpicFile1, EpicFile2, EpicFile1Again, Json(PyList(<<>>))}
NoEpic == [exists |-> FALSE, files |-> <<>>]
EpicDir(files) == [exists |-> TRUE, files |-> files]

NoFiles ==
    /\ fs_roots = <<>>
    /\ fs_steam = [d \in Dirs |-> NoSteamDir]
    /\ fs_epic = NoEpic
    /\ fs_folder = MissingFolder

ScannersIdle ==
    /\ st_pc = "idle" /\ st_max = 0 /\ st_root = 0 /\ st_libs = <<>> /\ st_lib = 0
    /\ st_man = 0 /\ st_results = <<>> /\ st_seen = {} /\ st_reads = <<>>
    /\ ep_pc = "idle" /\ ep_max = 0 /\ ep_i = 0 /\ ep_results = <<>> /\ ep_reads = <<>>
    /\ disc_pc = "idle" /\ disc_result = <<>>

CatalogIdle ==
    /\ store = <<>> /\ saved = <<>> /\ uuids = 0 /\ as_pc = "idle" /\ as_msg = <<>>

VdfIdle ==
    /\ vdf_pc = "idle" /\ vdf_text = <<>> /\ vdf_i = 0 /\ vdf_tokens = <<>>
    /\ vdf_result = PyNone

\* no game is being launched
LaunchIdle ==
    /\ ln_pc = "idle" /\ ln_game = PyNone /\ ln_args = PyNone /\ ln_cmd = <<>>
    /\ ln_status = <<>> /\ ln_os = <<>> /\ ln_result = <<>>

\* what the registry gives: no root, one, the same one twice, two
RootLists == {<<>>, <<"A">>, <<"A", "A">>, <<"A", "B">>}
\* what the second directory holds
OtherManifests == {<<>>, <<Manifest1>>, <<Manifest2>>, <<Manifest1, Manifest2>>}
MaxItemsRange == (-1)..MaxItems

\* several roots and libraries, holding manifests of the usual kind
SteamLibrariesInputs ==
    /\ fs_roots \in RootLists
    /\ \E ia \in IndexFiles, ma \in SeqsUpTo(SomeManifests, MaxManifests),
          mb \in OtherManifests, eb \in BOOLEAN :
          /\ mb # <<>> => eb
          /\ fs_steam = [d \in Dirs |->
                IF d = "A" THEN SteamDir(ia, ma)
                ELSE IF eb THEN SteamDir(NoIndex, mb) ELSE NoSteamDir]
    /\ fs_epic = NoEpic
    /\ fs_folder = ExeFolder
    /\ call \in {<<"scan_steam", m>> : m \in MaxItemsRange}

\* one library, holding one manifest of any shape
SteamShapesInputs ==
    /\ fs_roots = <<"A">>
    /\ \E ma \in OneAmong(AnyManifests, {Manifest2}, MaxManifests) :
          fs_steam = [d \in Dirs |-> IF d = "A" THEN SteamDir(NoIndex, ma) ELSE NoSteamDir]
    /\ fs_epic = NoEpic
    /\ fs_folder = MissingFolder
    /\ call \in {<<"scan_steam", m>> : m \in 0..MaxItems}

\* one manifest, its install folder of any shape
SteamFoldersInputs ==
    /\ fs_roots = <<"A">>
    /\ fs_steam = [d \in Dirs |-> IF d = "A" THEN SteamDir(NoIndex, <<Manifest1>>) ELSE NoSteamDir]
    /\ fs_epic = NoEpic
    /\ fs_folder \in Folders
    /\ call = <<"scan_steam", MaxItems>>

\* what the library index may list under a key
IndexEntryShapes ==
    {PyStr(<<"B">>), PyStr(<<>>), PathBlock("B"),
     Block(<<<<<<"libraryfolderpath">>, <<"B">>>>>>),
     Block(<<<<<<"path">>, <<>>>>, <<<<"libraryfolderpath">>, <<"B">>>>>>),
     Block(<<<<<<"path">>, <<"A">>>>, <<<<"libraryfolderpath">>, <<"B">>>>>>),
     Block(<<>>),
     Block(<<<<<<"path">>, <<>>>>, <<<<"libraryfolderpath">>, <<>>>>>>),
     Block(<<<<<<"label">>, <<"B">>>>>>)}
AnyIndexFiles ==
    {NoIndex}
    \cup {Index(w, <<>>) : w \in BOOLEAN}
    \cup {Index(w, <<<<<<"0">>, e>>>>) : w \in BOOLEAN, e \in IndexEntryShapes}
    \cup {Index(w, <<<<<<"0">>, e>>, <<<<"1">>, f>>>>) :
            w \in BOOLEAN, e \in IndexEntryShapes, f \in IndexEntryShapes}
\* root A with a library index of any shape, a manifest in A and one in B
SteamIndexInputs ==
    /\ fs_roots = <<"A">>
    /\ \E ia \in AnyIndexFiles :
          fs_steam = [d \in Dirs |->
                IF d = "A" THEN SteamDir(ia, <<Manifest1>>) ELSE SteamDir(NoIndex, <<Manifest2>>)]
    /\ fs_epic = NoEpic
    /\ fs_folder = MissingFolder
    /\ call = <<"scan_steam", MaxItems>>

\* Epic manifests, one of them of any shape
EpicInputs ==
    /\ fs_roots = <<>>
    /\ fs_steam = [d \in Dirs |-> NoSteamDir]
    /\ fs_epic \in {NoEpic}
          \cup {EpicDir(f) : f \in OneAmong(AnyEpicFiles, {EpicFile2}, MaxEpicFiles)}
    /\ fs_folder \in {MissingFolder, ExeFolder}
    /\ call \in {<<"scan_epic", m>> : m \in MaxItemsRange}

\* both stores, for initial_discovery
DiscoveryInputs ==
    /\ fs_roots = <<"A">>
    /\ \E ma \in SeqsUpTo({Manifest1, Manifest2}, MaxManifests) \cup {<<ManifestBadConfig>>} :
          fs_steam = [d \in Dirs |-> IF d = "A" THEN SteamDir(NoIndex, ma) ELSE NoSteamDir]
    /\ fs_epic \in {EpicDir(f) : f \in SeqsUpTo(SomeEpicFiles, MaxEpicFiles)}
    /\ fs_folder = ExeFolder
    /\ call \in {<<"initial_discovery", l>> : l \in 0..(MaxItems + 1)}

ScanInit ==
    /\ VdfIdle
    /\ ScannersIdle
    /\ LaunchIdle
    /\ platform = "win32"
    /\ CatalogIdle
    /\ \/ SteamLibrariesInputs
       \/ SteamShapesInputs
       \/ SteamFoldersInputs
       \/ SteamIndexInputs
       \/ EpicInputs
       \/ DiscoveryInputs

ScanNext ==
    \/ ScanSteamCall
    \/ ScanEpicCall
    \/ InitialDiscoveryCall
    \/ ScanSteamRoot
    \/ ScanSteamLibrary
    \/ ScanSteamManifest
    \/ ScanEpicFile
    \/ DiscoveryScanEpic
    \/ DiscoveryReturn
    \/ DiscoveryRaise

SpecScan == ScanInit /\ [][ScanNext]_vars

(***************************************************************************)
(* auto_scan over a catalog loaded from settings.json                      *)
(***************************************************************************)
MaxStored == 2
\* games a settings.json may hold: of the keys the manifests give, of a path
StoredSteam ==
    Game(PyStr(<<"g1">>), PyStr(<<"Old">>), PyStr(UriSteam(<<"1">>)), "steam",
         PyStr(<<"1">>), PyNone, <<<<"Steam">>>>, PyNone)
StoredEpic ==
    Game(PyStr(<<"g2">>), PyStr(<<"Old">>), PyStr(UriEpic(<<"A", "p", "p">>)), "epic",
         PyNone, PyStr(<<"A", "p", "p">>), <<<<"Epic">>>>, PyNone)
StoredExe ==
    Game(PyStr(<<"g3">>), PyStr(<<"Tool">>), PyStr(<<"C", ":", "/", "t", ".", "e", "x", "e">>), "exe",
         PyNone, PyNone, <<>>, PyNone)
\* a manual entry of the URI of app 1, with no appid
StoredUri ==
    Game(PyStr(<<"g4">>), PyStr(<<"Link">>), PyStr(UriSteam(<<"1">>)), "exe",
         PyNone, PyNone, <<>>, PyNone)
StoredGames == {StoredSteam, StoredEpic, StoredExe, StoredUri}
\* the Epic manifests of the catalog runs
CatalogEpicFiles ==
    {<<>>, <<EpicFile1>>, <<EpicFile1, EpicFile1Again>>, <<EpicFile2, EpicFile1>>}

CatalogInit ==
    /\ VdfIdle
    /\ ScannersIdle
    /\ LaunchIdle
    /\ platform = "win32"
    /\ fs_roots = <<"A">>
    /\ \E ma \in SeqsUpTo({Manifest1, Manifest2}, MaxManifests) \cup {<<ManifestBadConfig>>} :
          fs_steam = [d \in Dirs |-> IF d = "A" THEN SteamDir(NoIndex, ma) ELSE NoSteamDir]
    /\ fs_epic \in {EpicDir(f) : f \in CatalogEpicFiles}
    /\ fs_folder = ExeFolder
    /\ call = <<"auto_scan">>
    \* models.py lines 55-70: the store loads settings.json
    /\ store \in SeqsUpTo(StoredGames, MaxStored)
    /\ saved = store
    /\ uuids = 0
    /\ as_pc = "idle"
    /\ as_msg = <<>>

CatalogNext ==
    \/ AutoScanCall
    \/ ScanSteamRoot
    \/ ScanSteamLibrary
    \/ ScanSteamManifest
    \/ DiscoveryScanEpic
    \/ ScanEpicFile
    \/ DiscoveryReturn
    \/ DiscoveryRaise
    \/ AutoScanFailed
    \/ AutoScanMerge

SpecCatalog == CatalogInit /\ [][CatalogNext]_vars

(***************************************************************************)
(* The texts given to parse_vdf                                            *)
(***************************************************************************)
MaxTextLen == 4
VdfChars == {"a", "\"", "{", "}", " ", "\\", "/", "\n"}
ShortTexts == UNION {[1..n -> VdfChars] : n \in 0..MaxTextLen}

Keys == {<<"a">>, <<"b">>}
\* "K" { "N" { <pairs> } "F" "v" } with the nested block before or after the
\* flat pair
NestedBodies == {<<>>, <<<<<<"b">>, <<"a">>>>>>, <<<<<<"a">>, <<"b", "a">>>>, <<<<"b">>, <<>>>>>>}
BlockText(K, N, body, F, v, nestedFirst) ==
    LET nested == Quoted(N) \o <<" ", "{", " ">> \o PairsText(body) \o <<"}", "\n">>
        flat == Quoted(F) \o <<" ">> \o Quoted(v) \o <<"\n">>
    IN  Quoted(K) \o <<"\n", "{", "\n">>
        \o (IF nestedFirst THEN nested \o flat ELSE flat \o nested)
        \o <<"}", "\n">>
Prefixes(s) == {SubSeq(s, 1, n) : n \in 0..Len(s)}
BlockTexts ==
    {BlockText(K, N, body, F, <<"a", "b">>, nf) :
        K \in Keys, N \in Keys, body \in NestedBodies, F \in Keys, nf \in BOOLEAN}
\* the block texts and every truncation of one
TruncatedTexts == UNION {Prefixes(t) : t \in BlockTexts}
\* a quoted run of any characters, alone or with something after it
QuotedTexts ==
    {Quoted(body) \o rest :
        body \in SeqsUpTo(VdfChars, MaxTextLen - 1), rest \in {<<>>, <<"a">>, <<"{">>}}
VdfTexts == ShortTexts \cup TruncatedTexts \cup QuotedTexts

(***************************************************************************)
(* parse_vdf, step by step                                                 *)
(***************************************************************************)
VdfInit ==
    /\ vdf_pc = "tokenize"
    /\ vdf_text \in VdfTexts
    /\ vdf_i = 0
    /\ vdf_tokens = <<>>
    /\ vdf_result = PyNone
    /\ NoFiles
    /\ ScannersIdle
    /\ LaunchIdle
    /\ platform = "win32"
    /\ CatalogIdle
    /\ call = <<"parse_vdf">>

\* one iteration of the tokenizer's main loop
TokenizeStep ==
    /\ vdf_pc = "tokenize"
    /\ vdf_i < Len(vdf_text)
    /\ LET s == TokenizeIter(vdf_text, vdf_i) IN
        /\ vdf_i' = s.i
        /\ vdf_tokens' = vdf_tokens \o s.emit
        /\ vdf_pc' = IF s.raised THEN "raised" ELSE "tokenize"
    /\ UNCHANGED <<vdf_text, vdf_result>>
    /\ UNCHANGED <<fsVars, lnVars, catVars, call, steamVars, epicVars, discVars>>

\* the loop ends: return tokens
TokenizeReturn ==
    /\ vdf_pc = "tokenize"
    /\ ~(vdf_i < Len(vdf_text))
    /\ vdf_pc' = "parse"
    /\ UNCHANGED <<vdf_text, vdf_i, vdf_tokens, vdf_result>>
    /\ UNCHANGED <<fsVars, lnVars, catVars, call, steamVars, epicVars, discVars>>

\* lines 103-106
ParseVdfReturn ==
    /\ vdf_pc = "parse"
    /\ vdf_result' = PyMap(ParseVdfTokens(vdf_tokens))
    /\ vdf_pc' = "done"
    /\ UNCHANGED <<vdf_text, vdf_i, vdf_tokens>>
    /\ UNCHANGED <<fsVars, lnVars, catVars, call, steamVars, epicVars, discVars>>

VdfNext == TokenizeStep \/ TokenizeReturn \/ ParseVdfReturn

SpecVdf == VdfInit /\ [][VdfNext]_vars
\* the interpreter goes on running the call until it returns
SpecVdfLive == SpecVdf /\ WF_vars(VdfNext)

(***************************************************************************)
(* parse_vdf on the text of a scope written pair by pair                   *)
(***************************************************************************)
MaxPairs == 3
\* what a key is paired with: a string, or a block of "key" "value" pairs
PairValues ==
    {PyStr(<<"a">>), PyStr(<<"b">>), PyMap(<<>>),
     PyMap(<<<<<<"a">>, PyStr(<<"b">>)>>, <<<<"a">>, PyStr(<<"a">>)>>>>)}
ScopePairs == Keys \X PairValues
Scopes == SeqsUpTo(ScopePairs, MaxPairs)
\* "key" "value" or "key" { pairs }, pair after pair
RECURSIVE ScopeText(_)
ScopeText(pairs) ==
    IF pairs = <<>> THEN <<>>
    ELSE LET key == pairs[1][1]
             value == pairs[1][2]
         IN  Quoted(key) \o <<" ">>
             \o (IF IsStr(value) THEN Quoted(value.v)
                 ELSE <<"{", " ">> \o ScopeText(value.v) \o <<"}">>)
             \o <<"\n">> \o ScopeText(Tail(pairs))

\* what may stand between two pairs of the top-level scope: a "}", a key and
\* a "}", a block with no key before it, or a pair whose block ends on a key
Strays ==
    {[kind |-> "close"], [kind |-> "key"]}
    \cup {[kind |-> "block", pairs |-> p] : p \in SeqsUpTo(ScopePairs, 1)}
    \cup {[kind |-> "inner", pairs |-> p] : p \in SeqsUpTo(Keys \X {PyStr(<<"a">>)}, 1)}
StrayText(stray) ==
    CASE stray.kind = "close" -> <<"}", "\n">>
      [] stray.kind = "key" -> Quoted(<<"b">>) \o <<" ", "}", "\n">>
      [] stray.kind = "block" -> <<"{", " ">> \o ScopeText(stray.pairs) \o <<"}", "\n">>
      [] stray.kind = "inner" ->
            Quoted(<<"a">>) \o <<" ", "{", " ">> \o ScopeText(stray.pairs)
            \o Quoted(<<"b">>) \o <<" ", "}", "\n">>

\* parse_vdf(text) for the text of a scope; call[2] is the scope written, and
\* call[3], call[4] the stray and the pairs written after it, if any
ScopeInit ==
    /\ vdf_pc = "tokenize"
    /\ \/ \E pairs \in Scopes :
            /\ vdf_text = ScopeText(pairs)
            /\ call = <<"parse_vdf", pairs>>
       \/ \E before \in SeqsUpTo(ScopePairs, MaxPairs - 2), stray \in Strays,
             after \in SeqsUpTo(ScopePairs, 1) :
            /\ vdf_text = ScopeText(before) \o StrayText(stray) \o ScopeText(after)
            /\ call = <<"parse_vdf", before, stray, after>>
    /\ vdf_i = 0
    /\ vdf_tokens = <<>>
    /\ vdf_result = PyNone
    /\ NoFiles
    /\ ScannersIdle
    /\ LaunchIdle
    /\ platform = "win32"
    /\ CatalogIdle

SpecScope == ScopeInit /\ [][VdfNext]_vars

(***************************************************************************)
(* str and pathlib, as the dialogs and the launcher use them               *)
(***************************************************************************)
\* s.startswith(prefix), s.endswith(suffix), sub in s
StartsWith(s, prefix) == Len(s) >= Len(prefix) /\ SubSeq(s, 1, Len(prefix)) = prefix
EndsWith(s, suffix) ==
    Len(s) >= Len(suffix) /\ SubSeq(s, Len(s) - Len(suffix) + 1, Len(s)) = suffix
HasSub(s, sub) == \E i \in 1..(Len(s) - Len(sub) + 1) : SubSeq(s, i, i + Len(sub) - 1) = sub

\* s.split(c), the empty parts kept; cur is the part under way
RECURSIVE SplitOn(_, _, _)
SplitOn(s, seps, cur) ==
    IF s = <<>> THEN <<cur>>
    ELSE IF s[1] \in seps THEN <<cur>> \o SplitOn(Tail(s), seps, <<>>)
    ELSE SplitOn(Tail(s), seps, Append(cur, s[1]))
\* sep.join(parts)
RECURSIVE Join(_, _)
Join(parts, sep) ==
    IF parts = <<>> THEN <<>>
    ELSE IF Len(parts) = 1 THEN parts[1]
    ELSE parts[1] \o <<sep>> \o Join(Tail(parts), sep)

\* sys.platform.startswith("win"); pathlib takes the flavour of the host
IsWin(plat) == plat = "win32"
PathSeps(plat) == IF IsWin(plat) THEN {"/", "\\"} ELSE {"/"}
PathSep(plat) == IF IsWin(plat) THEN "\\" ELSE "/"
IsLetter(c) ==
    \E k \in 1..Len(Capitals) : Capitals[k] = c \/ Smalls[k] = c

\* Path(p): the drive, the root and the parts; "." and empty parts are dropped.
\* No path given to the launcher is a UNC path.
PathDrive(p, plat) ==
    IF IsWin(plat) /\ Len(p) >= 2 /\ p[2] = ":" /\ IsLetter(p[1]) THEN SubSeq(p, 1, 2)
    ELSE <<>>
PathRest(p, plat) == SubSeq(p, Len(PathDrive(p, plat)) + 1, Len(p))
PathRoot(p, plat) ==
    LET rest == PathRest(p, plat) IN
    IF rest = <<>> \/ rest[1] \notin PathSeps(plat) THEN <<>>
    ELSE IF IsWin(plat) THEN <<"\\">>
    \* posix keeps two leading slashes, and two only
    ELSE IF Len(rest) >= 2 /\ rest[2] = "/" /\ ~(Len(rest) >= 3 /\ rest[3] = "/")
         THEN <<"/", "/">>
    ELSE <<"/">>
PathParts(p, plat) ==
    SelectSeq(SplitOn(PathRest(p, plat), PathSeps(plat), <<>>),
              LAMBDA part : part # <<>> /\ part # <<".">>)
Path(p, plat) ==
    [drive |-> PathDrive(p, plat), root |-> PathRoot(p, plat), parts |-> PathParts(p, plat),
     plat |-> plat]
\* str(path)
PathStr(path) ==
    IF path.drive = <<>> /\ path.root = <<>> /\ path.parts = <<>> THEN <<".">>
    ELSE path.drive \o path.root \o Join(path.parts, PathSep(path.plat))
\* path.parent
PathParent(path) ==
    IF path.parts = <<>> THEN path
    ELSE [path EXCEPT !.parts = SubSeq(path.parts, 1, Len(path.parts) - 1)]
\* path.name
PathName(path) == IF path.parts = <<>> THEN <<>> ELSE path.parts[Len(path.parts)]
\* name.rfind("."), 0-based, -1 when there is none
RFindDot(name) ==
    IF \E i \in 1..Len(name) : name[i] = "."
    THEN (CHOOSE i \in 1..Len(name) :
              name[i] = "." /\ \A j \in (i + 1)..Len(name) : name[j] # ".") - 1
    ELSE -1
\* path.suffix and path.stem
PathSuffix(path) ==
    LET name == PathName(path)
        i == RFindDot(name)
    IN  IF 0 < i /\ i < Len(name) - 1 THEN SubSeq(name, i + 1, Len(name)) ELSE <<>>
PathStem(path) ==
    LET name == PathName(path)
        i == RFindDot(name)
    IN  IF 0 < i /\ i < Len(name) - 1 THEN SubSeq(name, 1, i) ELSE name

(***************************************************************************)
(* EntryDialog.get_value and the handlers of the main window               *)
(***************************************************************************)
SteamPrefix == <<"s", "t", "e", "a", "m", ":", "/", "/">>
EpicPrefix ==
    <<"c", "o", "m", ".", "e", "p", "i", "c", "g", "a", "m", "e", "s", ".",
      "l", "a", "u", "n", "c", "h", "e", "r", ":", "/", "/">>
\* dialogs.py lines 83-90 and main_window.py lines 174-181, the same code
DetectKind(exec_path) ==
    IF StartsWith(exec_path, SteamPrefix) THEN "steam"
    ELSE IF StartsWith(exec_path, EpicPrefix) THEN "epic"
    ELSE IF EndsWith(Lower(exec_path), <<".", "l", "n", "k">>) THEN "lnk"
    ELSE "exe"

\* text.strip() or None
TextOrNone(text) == IF Strip(text) = <<>> THEN PyNone ELSE PyStr(Strip(text))
\* [t.strip() for t in text.split(",") if t.strip()]
TagsOf(text) ==
    LET parts == SplitOn(text, {","}, <<>>)
        kept == SelectSeq(parts, LAMBDA t : Strip(t) # <<>>)
    IN  [j \in 1..Len(kept) |-> Strip(kept[j])]

\* what the dialog holds when it is accepted: the texts of its line edits and
\* the state of its check box
Form(name, path, args, workdir, tags, cover, fallback, run_as_admin) ==
    [name |-> name, path |-> path, args |-> args, workdir |-> workdir, tags |-> tags,
     cover |-> cover, fallback |-> fallback, run_as_admin |-> run_as_admin]

\* dialogs.py lines 92-136: entry is the game under edit, or None; id is the
\* uuid that is made when there is none
GetValue(entry, form, id) ==
    LET name == Strip(form.name)
        exec_path == Strip(form.path)
    IN  IF name = <<>> \/ exec_path = <<>> THEN PyNone
        ELSE [id |-> IF entry = PyNone THEN id ELSE entry.id,
              name |-> PyStr(name),
              exec_path |-> PyStr(exec_path),
              args |-> TextOrNone(form.args),
              working_dir |-> TextOrNone(form.workdir),
              favorite |-> IF entry = PyNone THEN FALSE ELSE entry.favorite,
              tags |-> TagsOf(form.tags),
              cover |-> TextOrNone(form.cover),
              kind |-> DetectKind(exec_path),
              steam_appid |-> IF entry = PyNone THEN PyNone ELSE entry.steam_appid,
              epic_appname |-> IF entry = PyNone THEN PyNone ELSE entry.epic_appname,
              run_as_admin |-> form.run_as_admin,
              fallback_exe |-> TextOrNone(form.fallback)]

\* models.py lines 114-118: the position of the first game of that id, 0 for None
ById(catalog, game_id) ==
    IF \E j \in 1..Len(catalog) : catalog[j].id = game_id
    THEN CHOOSE j \in 1..Len(catalog) :
             catalog[j].id = game_id /\ \A k \in 1..(j - 1) : catalog[k].id # game_id
    ELSE 0
\* models.py lines 98-103: the first game of that id is replaced
Update(catalog, updated) ==
    IF ById(catalog, updated.id) = 0 THEN catalog
    ELSE [catalog EXCEPT ![ById(catalog, updated.id)] = updated]
\* models.py lines 105-108
Delete(catalog, ids) == SelectSeq(catalog, LAMBDA g : g.id \notin ids)

\* the directories among the paths dropped on the window
IsDir(p) == p = <<"C", ":", "/", "G">>
DropSuffixes == {<<".", "e", "x", "e">>, <<".", "b", "a", "t">>, <<".", "l", "n", "k">>}
\* main_window.py lines 141-153: the url is passed over
DropSkipped(p, plat) ==
    \/ p = <<>>
    \/ /\ ~HasSub(p, <<":", "/", "/">>)
       /\ ~(IsDir(p) \/ Lower(PathSuffix(Path(p, plat))) \in DropSuffixes)
\* main_window.py lines 144-165: the game made of a url that is not passed over
DropGame(p, plat, id) ==
    LET uri == HasSub(p, <<":", "/", "/">>)
        path == Path(p, plat)
        exec_path == IF uri THEN p ELSE PathStr(path)
    IN  [id |-> id,
         name |-> PyStr(IF uri THEN p ELSE PathStem(path)),
         exec_path |-> PyStr(exec_path),
         args |-> PyNone,
         working_dir |-> IF uri THEN PyNone ELSE PyStr(PathStr(PathParent(path))),
         favorite |-> FALSE, tags |-> <<>>, cover |-> PyNone,
         kind |-> DetectKind(exec_path),
         steam_appid |-> PyNone, epic_appname |-> PyNone,
         run_as_admin |-> FALSE, fallback_exe |-> PyNone]
\* main_window.py lines 139-169: the games the urls make; n ids were given before
RECURSIVE DropGames(_, _, _)
DropGames(urls, plat, n) ==
    IF urls = <<>> THEN <<>>
    ELSE IF DropSkipped(urls[1], plat) THEN DropGames(Tail(urls), plat, n)
    ELSE <<DropGame(urls[1], plat, Uuid(n + 1))>> \o DropGames(Tail(urls), plat, n + 1)

\* the rows and the ids a run of the window goes up to
MaxRows == 2
MaxUuids == 2

\* what the user types in the dialog
NoText == <<>>
UiForms ==
    {Form(<<"N">>, UriSteam(<<"1">>), NoText, NoText, NoText, NoText, NoText, FALSE),
     Form(<<"N">>, <<"S", "T", "E", "A", "M", ":", "/", "/", "R", "U", "N", "G", "A", "M",
                     "E", "I", "D", "/", "1">>,
          NoText, NoText, NoText, NoText, NoText, FALSE),
     Form(<<" ", "N", " ">>, <<" ", "C", ":", "/", "t", ".", "e", "x", "e", " ">>,
          NoText, NoText, NoText, NoText, NoText, FALSE),
     Form(<<" ">>, <<"C", ":", "/", "t", ".", "e", "x", "e">>,
          NoText, NoText, NoText, NoText, NoText, FALSE),
     Form(<<"N">>, UriEpic(<<"A", "p", "p">>), <<" ", "-", "w", " ">>, NoText,
          <<"a", ",", " ", ",", "b", " ">>, NoText, <<"C", ":", "/", "f", ".", "e", "x", "e">>,
          TRUE)}
\* what the user drops on the window: the local files of the urls
DroppedExe == <<"C", ":", "/", "G", "/", "t", ".", "E", "X", "E">>
DroppedDir == <<"C", ":", "/", "G">>
DroppedLnk == <<"C", ":", "/", "a", ".", "L", "n", "k">>
DroppedText == <<"C", ":", "/", "n", ".", "t", "x", "t">>
DroppedUrls ==
    {<<DroppedExe>>, <<DroppedDir>>, <<DroppedLnk>>, <<DroppedText>>, <<NoText>>,
     <<DroppedText, DroppedLnk, NoText>>, <<DroppedExe, DroppedDir>>}
CoverImage == <<"c", ".", "p", "n", "g">>

\* main_window.py lines 97-103: the dialog is accepted with the form
AddEntry ==
    /\ call[1] = "main_window" /\ as_pc = "idle"
    /\ Len(store) < MaxRows /\ uuids < MaxUuids
    /\ \E form \in UiForms :
          LET game == GetValue(PyNone, form, Uuid(uuids + 1)) IN
          /\ game # PyNone
          /\ store' = Append(store, game)
          /\ saved' = store'
          /\ uuids' = uuids + 1
    /\ UNCHANGED <<vdfVars, fsVars, lnVars, call, steamVars, epicVars, discVars, as_pc, as_msg>>

\* main_window.py lines 137-172
DropEvent ==
    /\ call[1] = "main_window" /\ as_pc = "idle"
    /\ \E urls \in DroppedUrls :
          LET games == DropGames(urls, platform, uuids) IN
          /\ games # <<>>
          /\ Len(store) + Len(games) <= MaxRows /\ uuids + Len(games) <= MaxUuids
          /\ store' = store \o games
          /\ saved' = store'
          /\ uuids' = uuids + Len(games)
    /\ UNCHANGED <<vdfVars, fsVars, lnVars, call, steamVars, epicVars, discVars, as_pc, as_msg>>

\* main_window.py lines 256-265: the card of a row is edited and the dialog
\* accepted with the form
OnEdit ==
    /\ call[1] = "main_window" /\ as_pc = "idle"
    /\ \E i \in 1..Len(store), form \in UiForms :
          LET game == store[ById(store, store[i].id)]
              updated == GetValue(game, form, Uuid(0))
          IN  /\ updated # PyNone
              /\ store' = Update(store, updated)
              /\ saved' = store'
    /\ UNCHANGED <<vdfVars, fsVars, lnVars, call, steamVars, epicVars, discVars,
                   uuids, as_pc, as_msg>>

\* main_window.py lines 267-273: the question is answered with yes
OnDelete ==
    /\ call[1] = "main_window" /\ as_pc = "idle"
    /\ \E i \in 1..Len(store) :
          /\ store' = Delete(store, {store[i].id})
          /\ saved' = store'
    /\ UNCHANGED <<vdfVars, fsVars, lnVars, call, steamVars, epicVars, discVars,
                   uuids, as_pc, as_msg>>

\* main_window.py lines 275-281
OnFav ==
    /\ call[1] = "main_window" /\ as_pc = "idle"
    /\ \E i \in 1..Len(store) :
          LET game == store[ById(store, store[i].id)] IN
          /\ store' = Update(store, [game EXCEPT !.favorite = ~game.favorite])
          /\ saved' = store'
    /\ UNCHANGED <<vdfVars, fsVars, lnVars, call, steamVars, epicVars, discVars,
                   uuids, as_pc, as_msg>>

\* main_window.py lines 283-289
OnCoverDropped ==
    /\ call[1] = "main_window" /\ as_pc = "idle"
    /\ \E i \in 1..Len(store) :
          LET game == store[ById(store, store[i].id)] IN
          /\ store' = Update(store, [game EXCEPT !.cover = PyStr(CoverImage)])
          /\ saved' = store'
    /\ UNCHANGED <<vdfVars, fsVars, lnVars, call, steamVars, epicVars, discVars,
                   uuids, as_pc, as_msg>>

\* the window over a catalog loaded from settings.json, on a host with one
\* Steam manifest and one Epic manifest, which may be one that makes the scan
\* raise
UiInit ==
    /\ VdfIdle
    /\ ScannersIdle
    /\ LaunchIdle
    /\ platform = "win32"
    /\ fs_roots = <<"A">>
    /\ fs_steam = [d \in Dirs |-> IF d = "A" THEN SteamDir(NoIndex, <<Manifest1>>)
                                  ELSE NoSteamDir]
    /\ fs_epic \in {EpicDir(<<EpicFile1>>), EpicDir(<<Json(PyList(<<>>))>>)}
    /\ fs_folder = ExeFolder
    /\ call = <<"main_window">>
    /\ store \in {<<>>, <<StoredSteam>>}
    /\ saved = store
    /\ uuids = 0
    /\ as_pc = "idle"
    /\ as_msg = <<>>

UiNext ==
    \/ AddEntry
    \/ DropEvent
    \/ OnEdit
    \/ OnDelete
    \/ OnFav
    \/ OnCoverDropped
    \/ (Len(store) < MaxRows /\ uuids < MaxUuids /\ AutoScanCall)
    \/ ScanSteamRoot
    \/ ScanSteamLibrary
    \/ ScanSteamManifest
    \/ DiscoveryScanEpic
    \/ ScanEpicFile
    \/ DiscoveryReturn
    \/ DiscoveryRaise
    \/ AutoScanFailed
    \/ AutoScanMerge

SpecUi == UiInit /\ [][UiNext]_vars

(***************************************************************************)
(* launch_win: build_cmd and the calls it makes                            *)
(***************************************************************************)
\* line 14
UriPrefixes == {SteamPrefix, EpicPrefix}
\* lines 17-18 with the steam prefix alone
IsUriMut(path) == StartsWith(Lower(path), SteamPrefix)
\* lines 17-18
IsUri(path) == \E prefix \in UriPrefixes : StartsWith(Lower(path), prefix)

\* a shortcut file: what its TargetPath, Arguments and WorkingDirectory hold
Shortcut(target, arguments, workdir) ==
    [target |-> target, arguments |-> arguments, workdir |-> workdir]
\* lines 30-36: the script writes the three fields, a line each
ShortcutOutput(lnk) ==
    lnk.target \o <<"\n">> \o lnk.arguments \o <<"\n">> \o lnk.workdir \o <<"\n">>
\* what subprocess.run gives for the script: it raises, or it completes with
\* a return code and the text the script wrote
RunRaised == [raised |-> TRUE, returncode |-> 0, stdout |-> <<>>]
RunCompleted(returncode, stdout) ==
    [raised |-> FALSE, returncode |-> returncode, stdout |-> stdout]

\* s or None
StrOrNone(s) == IF s = <<>> THEN PyNone ELSE PyStr(s)
NoShortcut == [target |-> PyNone, arguments |-> PyNone, working_dir |-> PyNone]
\* line 62: the lines of stdout, stripped, the blank ones left out
OutputLines(stdout) ==
    LET lines == SplitOn(stdout, {"\n", "\r"}, <<>>)
        kept == SelectSeq(lines, LAMBDA line : Strip(line) # <<>>)
    IN  [j \in 1..Len(kept) |-> Strip(kept[j])]
\* lines 21-69: _resolve_shortcut, run being what subprocess.run gives
ResolveShortcut(plat, run) ==
    IF ~IsWin(plat) THEN NoShortcut
    ELSE IF run.raised THEN NoShortcut
    ELSE IF run.returncode # 0 THEN NoShortcut
    ELSE LET outputs == OutputLines(run.stdout) IN
         IF outputs = <<>> THEN NoShortcut
         ELSE [target |-> StrOrNone(outputs[1]),
               arguments |-> IF Len(outputs) > 1 THEN StrOrNone(outputs[2]) ELSE PyNone,
               working_dir |-> IF Len(outputs) > 2 THEN StrOrNone(outputs[3]) ELSE PyNone]

\* lines 72-78
MergeArgs(link_args, extra_args) ==
    LET values == SelectSeq(<<link_args, extra_args>>, Truthy) IN
    IF values = <<>> THEN PyNone
    ELSE IF Len(values) = 1 THEN values[1]
    ELSE PyStr(values[1].v \o <<" ">> \o values[2].v)

\* line 92: build_cmd takes the path for a shortcut and has it resolved
IsShortcut(exec_path, plat) ==
    /\ ~IsUri(Strip(exec_path))
    /\ IsWin(plat)
    /\ Lower(PathSuffix(Path(Strip(exec_path), plat))) = <<".", "l", "n", "k">>
\* lines 81-103: build_cmd(exec_path, args), run being what subprocess.run
\* gives when the shortcut is resolved
BuildCmd(exec_path, args, plat, run) ==
    LET stripped == Strip(exec_path) IN
    IF IsUri(stripped) THEN [file |-> stripped, params |-> args, cwd |-> <<>>]
    ELSE LET path == Path(stripped, plat)
             link == IF IsShortcut(exec_path, plat) THEN ResolveShortcut(plat, run)
                     ELSE NoShortcut
             found == Truthy(link.target)
             final == IF found THEN Path(link.target.v, plat) ELSE path
             cwd == IF found /\ Truthy(link.working_dir) THEN link.working_dir.v ELSE <<>>
         IN  [file |-> PathStr(final),
              params |-> IF found THEN MergeArgs(link.arguments, args) ELSE args,
              cwd |-> IF cwd = <<>> THEN PathStr(PathParent(final)) ELSE cwd]

(***************************************************************************)
(* launch_win: _shell_execute, _spawn_subprocess                           *)
(***************************************************************************)
\* lines 152-156 without the "or 1"
ShellStatusMut(success, error) == IF ~success THEN error ELSE 0
\* lines 152-156: int(error or 1) when the call failed, else 0
ShellStatus(success, error) ==
    IF ~success THEN (IF error # 0 THEN error ELSE 1) ELSE 0

\* shlex.split(params, posix=False): state is " " between tokens, "a" inside a
\* word, or the quote that opened the token; a quote opens a token only at its
\* start and closes it where it comes again; the end of the text inside a
\* quoted token raises ValueError
ShlexQuotes == {"\"", "'"}
RECURSIVE Shlex(_, _, _, _)
Shlex(s, state, token, tokens) ==
    IF s = <<>>
    THEN IF state \in ShlexQuotes THEN [raised |-> TRUE, tokens |-> tokens]
         ELSE IF state = "a" THEN [raised |-> FALSE, tokens |-> Append(tokens, token)]
         ELSE [raised |-> FALSE, tokens |-> tokens]
    ELSE LET c == s[1]
             rest == Tail(s)
         IN  IF state = " "
             THEN IF c \in WhiteSpace THEN Shlex(rest, " ", <<>>, tokens)
                  ELSE IF c \in ShlexQuotes THEN Shlex(rest, c, <<c>>, tokens)
                  ELSE Shlex(rest, "a", <<c>>, tokens)
             ELSE IF state \in ShlexQuotes
             THEN IF c = state THEN Shlex(rest, " ", <<>>, Append(tokens, Append(token, c)))
                  ELSE Shlex(rest, state, Append(token, c), tokens)
             ELSE IF c \in WhiteSpace THEN Shlex(rest, " ", <<>>, Append(tokens, token))
                  ELSE Shlex(rest, "a", Append(token, c), tokens)
ShlexSplit(s) == Shlex(s, " ", <<>>, <<>>)

\* lines 160-162: the command line of _spawn_subprocess
SpawnCmd(file, params) ==
    IF Truthy(params)
    THEN LET split == ShlexSplit(params.v)
         IN  [raised |-> split.raised, cmd |-> <<file>> \o split.tokens]
    ELSE [raised |-> FALSE, cmd |-> <<file>>]
\* lines 163-170: 0 when Popen returned, 1 when it raised
SpawnStatus(popen) == IF popen = "ok" THEN 0 ELSE 1

(***************************************************************************)
(* utils.launcher.launch_path                                              *)
(***************************************************************************)
\* args.split()
SplitBlank(s) == SelectSeq(SplitOn(s, WhiteSpace, <<>>), LAMBDA part : part # <<>>)
\* lines 10-34: the call launch_path makes to the host; is_dir and x_ok are
\* what Path(path).is_dir() and os.access(path, os.X_OK) give
LaunchPathCall(path, args, workdir, plat, is_dir, x_ok) ==
    LET p == Strip(path)
        a == Strip(args)
        cwd == StrOrNone(Strip(workdir))
    IN  IF HasSub(p, <<":", "/", "/">>)
        THEN IF IsWin(plat) THEN [call |-> "startfile", cmd |-> <<p>>, cwd |-> PyNone]
             ELSE IF plat = "darwin"
                  THEN [call |-> "Popen", cmd |-> <<<<"open">>, p>>, cwd |-> PyNone]
             ELSE [call |-> "Popen", cmd |-> <<<<"xdg-open">>, p>>, cwd |-> PyNone]
        ELSE IF IsWin(plat)
             THEN [call |-> "Popen",
                   cmd |-> <<Quoted(p) \o (IF a # <<>> THEN <<" ">> \o a ELSE <<>>)>>,
                   cwd |-> cwd]
        ELSE IF plat = "darwin" THEN [call |-> "Popen", cmd |-> <<<<"open">>, p>>, cwd |-> cwd]
        ELSE IF is_dir THEN [call |-> "Popen", cmd |-> <<<<"xdg-open">>, p>>, cwd |-> cwd]
        ELSE IF x_ok
             THEN [call |-> "Popen", cmd |-> <<p>> \o (IF a # <<>> THEN SplitBlank(a) ELSE <<>>),
                   cwd |-> cwd]
        ELSE [call |-> "Popen", cmd |-> <<<<"xdg-open">>, p>>, cwd |-> cwd]

(***************************************************************************)
(* launch and MainWindow.launch_game, step by step                         *)
(***************************************************************************)
\* the arguments of a call of launch
LaunchArgs(exec_path, args, run_as_admin) ==
    [exec_path |-> exec_path, args |-> args, run_as_admin |-> run_as_admin]

\* what the host holds and answers
TargetExe == <<"C", ":", "\\", "G", "\\", "t", ".", "e", "x", "e">>
SomeShortcuts ==
    {Shortcut(t, a, w) : t \in {<<>>, TargetExe}, a \in {<<>>, <<"-", "x">>},
                         w \in {<<>>, <<"C", ":", "\\", "W">>}}
SomeRuns ==
    {RunRaised, RunCompleted(1, <<>>)} \cup {RunCompleted(0, ShortcutOutput(lnk)) : lnk \in SomeShortcuts}
\* GetLastError() after a call that failed
LastErrors == {0, 5}
PopenOutcomes == {"ok", "FileNotFoundError", "OSError"}

\* what launch is called with
ExecPaths ==
    {UriSteam(<<"1">>),
     <<" ">> \o UriSteam(<<"1">>) \o <<" ">>,
     UriSteam(<<"1">>) \o <<" ">>,
     <<"S", "T", "E", "A", "M", ":", "/", "/", "1">>,
     UriEpic(<<"A", "p", "p">>),
     <<"C", ":", "/", "G", "/", "t", ".", "e", "x", "e">>,
     <<"C", ":", "/", "a", ".", "L", "n", "k">>,
     <<"/", "g", "/", "t">>,
     <<"t", ".", "e", "x", "e">>}
ArgStrings ==
    {PyNone, PyStr(<<>>), PyStr(<<"-", "w">>), PyStr(<<"\"", "u">>),
     PyStr(<<"-", "a", " ", "\"", "b", " ", "c", "\"">>)}
Platforms == {"win32", "linux", "darwin"}

\* the games of the catalog that are launched
LaunchGame(exec_path, args, working_dir, run_as_admin, fallback_exe) ==
    [Game(PyStr(<<"g">>), PyStr(<<"N">>), PyStr(exec_path), DetectKind(exec_path),
          PyNone, PyNone, <<>>, fallback_exe)
     EXCEPT !.args = args, !.working_dir = working_dir, !.run_as_admin = run_as_admin]
FallbackExe == <<"C", ":", "/", "f", ".", "e", "x", "e">>
LaunchGames ==
    {LaunchGame(p, a, PyNone, FALSE, f) :
        p \in {UriSteam(<<"1">>), <<"C", ":", "/", "G", "/", "t", ".", "e", "x", "e">>,
               <<"C", ":", "/", "a", ".", "L", "n", "k">>},
        a \in {PyNone, PyStr(<<"-", "w">>)},
        f \in {PyNone, PyStr(<<>>), PyStr(FallbackExe)}}
    \cup {LaunchGame(<<"/", "g", "/", "t">>, PyStr(<<" ", "-", "a", " ", " ", "b">>),
                     PyStr(<<"/", "g">>), TRUE, PyNone)}

\* a call of launch(exec_path, args, run_as_admin)
LaunchCall ==
    /\ call[1] = "launch" /\ ln_pc = "idle"
    /\ \E p \in ExecPaths, a \in ArgStrings, admin \in BOOLEAN :
          ln_args' = LaunchArgs(p, a, admin)
    /\ ln_pc' = "build"
    /\ UNCHANGED <<vdfVars, fsVars, call, steamVars, epicVars, discVars, catVars,
                   platform, ln_game, ln_cmd, ln_status, ln_os, ln_result>>

\* main_window.py lines 240-242, 247: launch_game(game) calls launch on
\* Windows and launch_path elsewhere
LaunchGameCall ==
    /\ call[1] = "launch_game" /\ ln_pc = "idle"
    /\ \E game \in LaunchGames :
          /\ ln_game' = game
          /\ ln_args' = IF IsWin(platform)
                        THEN LaunchArgs(game.exec_path.v, game.args, game.run_as_admin)
                        ELSE ln_args
    /\ ln_pc' = IF IsWin(platform) THEN "build" ELSE "launch_path"
    /\ UNCHANGED <<vdfVars, fsVars, call, steamVars, epicVars, discVars, catVars,
                   platform, ln_cmd, ln_status, ln_os, ln_result>>

\* launch_win.py line 179: build_cmd; powershell is run for a shortcut
LaunchBuildCmd ==
    /\ ln_pc = "build"
    /\ IF IsShortcut(ln_args.exec_path, platform)
       THEN \E run \in SomeRuns :
               /\ ln_cmd' = Append(ln_cmd, BuildCmd(ln_args.exec_path, ln_args.args, platform, run))
               /\ ln_os' = Append(ln_os, [call |-> "powershell",
                                          path |-> PathStr(Path(Strip(ln_args.exec_path), platform)),
                                          run |-> run])
       ELSE /\ ln_cmd' = Append(ln_cmd, BuildCmd(ln_args.exec_path, ln_args.args, platform, RunRaised))
            /\ ln_os' = ln_os
    /\ ln_pc' = "start"
    /\ UNCHANGED <<vdfVars, fsVars, call, steamVars, epicVars, discVars, catVars,
                   platform, ln_game, ln_args, ln_status, ln_result>>

\* the value build_cmd returned to the call of launch under way
Cmd == ln_cmd[Len(ln_cmd)]

\* launch_win.py lines 181-184: a URI off Windows
LaunchUriRefused ==
    /\ ln_pc = "start"
    /\ IsUri(Cmd.file) /\ ~IsWin(platform)
    /\ ln_status' = Append(ln_status, 1)
    /\ ln_pc' = "returned"
    /\ UNCHANGED <<vdfVars, fsVars, call, steamVars, epicVars, discVars, catVars,
                   platform, ln_game, ln_args, ln_cmd, ln_os, ln_result>>

\* launch_win.py lines 185-191: os.startfile returns, or raises OSError
LaunchStartFile ==
    /\ ln_pc = "start"
    /\ IsUri(Cmd.file) /\ IsWin(platform)
    /\ \E ok \in BOOLEAN :
          /\ ln_os' = Append(ln_os, [call |-> "startfile", file |-> Cmd.file, ok |-> ok])
          /\ ln_status' = Append(ln_status, IF ok THEN 0 ELSE 1)
    /\ ln_pc' = "returned"
    /\ UNCHANGED <<vdfVars, fsVars, call, steamVars, epicVars, discVars, catVars,
                   platform, ln_game, ln_args, ln_cmd, ln_result>>

\* launch_win.py lines 193-194 and 106-156: ShellExecuteExW succeeds, or fails
\* and leaves a last error
LaunchShellExecute ==
    /\ ln_pc = "start"
    /\ ~IsUri(Cmd.file) /\ IsWin(platform)
    /\ \E success \in BOOLEAN, error \in LastErrors :
          /\ success => error = 0
          /\ ln_os' = Append(ln_os, [call |-> "ShellExecuteExW",
                                     verb |-> IF ln_args.run_as_admin THEN PyStr(<<"runas">>)
                                              ELSE PyNone,
                                     file |-> Cmd.file, params |-> Cmd.params,
                                     cwd |-> StrOrNone(Cmd.cwd),
                                     ok |-> success, error |-> error])
          /\ ln_status' = Append(ln_status, ShellStatus(success, error))
    /\ ln_pc' = "returned"
    /\ UNCHANGED <<vdfVars, fsVars, call, steamVars, epicVars, discVars, catVars,
                   platform, ln_game, ln_args, ln_cmd, ln_result>>

\* launch_win.py lines 195 and 159-170: the argument string is split, outside
\* the try, and Popen called
LaunchSpawn ==
    /\ ln_pc = "start"
    /\ ~IsUri(Cmd.file) /\ ~IsWin(platform)
    /\ LET spawn == SpawnCmd(Cmd.file, Cmd.params) IN
       IF spawn.raised
       THEN /\ ln_pc' = "raised"
            /\ UNCHANGED <<ln_os, ln_status>>
       ELSE /\ \E popen \in PopenOutcomes :
                 /\ ln_os' = Append(ln_os, [call |-> "Popen", cmd |-> spawn.cmd,
                                            cwd |-> StrOrNone(Cmd.cwd),
                                            ok |-> popen = "ok"])
                 /\ ln_status' = Append(ln_status, SpawnStatus(popen))
            /\ ln_pc' = "returned"
    /\ UNCHANGED <<vdfVars, fsVars, call, steamVars, epicVars, discVars, catVars,
                   platform, ln_game, ln_args, ln_cmd, ln_result>>

\* main_window.py lines 243-245: the launch failed and the game has a
\* fallback_exe
LaunchGameRetry ==
    /\ call[1] = "launch_game" /\ ln_pc = "returned"
    /\ Len(ln_status) = 1
    /\ ln_status[1] # 0 /\ Truthy(ln_game.fallback_exe)
    /\ ln_args' = LaunchArgs(ln_game.fallback_exe.v, ln_game.args, ln_game.run_as_admin)
    /\ ln_pc' = "build"
    /\ UNCHANGED <<vdfVars, fsVars, call, steamVars, epicVars, discVars, catVars,
                   platform, ln_game, ln_cmd, ln_status, ln_os, ln_result>>

\* main_window.py line 246: return status == 0
LaunchGameReturn ==
    /\ call[1] = "launch_game" /\ ln_pc = "returned"
    /\ Len(ln_status) = 2 \/ ~(ln_status[1] # 0 /\ Truthy(ln_game.fallback_exe))
    /\ ln_result' = <<ln_status[Len(ln_status)] = 0>>
    /\ ln_pc' = "done"
    /\ UNCHANGED <<vdfVars, fsVars, call, steamVars, epicVars, discVars, catVars,
                   platform, ln_game, ln_args, ln_cmd, ln_status, ln_os>>

\* main_window.py line 247 and launcher.py lines 9-37: launch_path, whose call
\* to the host returns or raises
LaunchGamePath ==
    /\ call[1] = "launch_game" /\ ln_pc = "launch_path"
    /\ \E is_dir \in BOOLEAN, x_ok \in BOOLEAN, ok \in BOOLEAN :
          LET made == LaunchPathCall(ln_game.exec_path.v, PyOr(ln_game.args, PyStr(<<>>)).v,
                                     PyOr(ln_game.working_dir, PyStr(<<>>)).v,
                                     platform, is_dir, x_ok)
          IN  /\ ln_os' = Append(ln_os, [call |-> made.call, cmd |-> made.cmd,
                                         cwd |-> made.cwd, ok |-> ok])
              /\ ln_result' = <<ok>>
    /\ ln_pc' = "done"
    /\ UNCHANGED <<vdfVars, fsVars, call, steamVars, epicVars, discVars, catVars,
                   platform, ln_game, ln_args, ln_cmd, ln_status>>

\* launch, or launch_game, called once on some host
LaunchInit ==
    /\ VdfIdle
    /\ ScannersIdle
    /\ CatalogIdle
    /\ NoFiles
    /\ LaunchIdle
    /\ platform \in Platforms
    /\ call \in {<<"launch">>, <<"launch_game">>}

LaunchNext ==
    \/ LaunchCall
    \/ LaunchGameCall
    \/ LaunchBuildCmd
    \/ LaunchUriRefused
    \/ LaunchStartFile
    \/ LaunchShellExecute
    \/ LaunchSpawn
    \/ LaunchGameRetry
    \/ LaunchGameReturn
    \/ LaunchGamePath

SpecLaunch == LaunchInit /\ [][LaunchNext]_vars

RECURSIVE PairsDict(_, _)
PairsDict(pairs, d) ==
    IF pairs = <<>> THEN d
    ELSE PairsDict(Tail(pairs), DictSet(d, pairs[1][1], PyStr(pairs[1][2])))
BlockValue(K, N, body, F, v, nestedFirst) ==
    LET n == <<N, PyMap(PairsDict(body, <<>>))>>
        f == <<F, PyStr(v)>>
    IN  PyMap(<<<<K, PyMap(IF nestedFirst THEN <<n, f>> ELSE <<f, n>>)>>>>)
\* C2: a quoted top-level key followed by a block that holds one key bound
\* to a nested block and one key bound to a string parses to a mapping whose
\* single key maps to a mapping with exactly those two keys, the nested key
\* bound to the mapping of the nested pairs, the flat key bound to its string;
\* the pairs after the nested block's "}" go to the enclosing scope.
C2_NestedAndFlat ==
    vdf_pc = "done" =>
        \A K \in Keys, N \in Keys, F \in Keys, body \in NestedBodies, nf \in BOOLEAN :
            (N # F /\ vdf_text = BlockText(K, N, body, F, <<"a", "b">>, nf))
                => vdf_result = BlockValue(K, N, body, F, <<"a", "b">>, nf)
\* "a" { "b" { "b" "a" } "a" "ab" } has been parsed
C2_Witness ==
    /\ vdf_pc = "done"
    /\ vdf_text = BlockText(<<"a">>, <<"b">>, <<<<<<"b">>, <<"a">>>>>>, <<"a">>, <<"a", "b">>, TRUE)
    /\ vdf_result = PyMap(<<<<<<"a">>, PyMap(<<<<<<"b">>, PyMap(<<<<<<"b">>, PyStr(<<"a">>)>>>>)>>,
                                               <<<<"a">>, PyStr(<<"a", "b">>)>>>>)>>>>)

\* The mapping formed before a truncation, scope by scope: the open scopes are
\* a stack of frames, a completed pair goes into the innermost frame, "}"
\* closes the innermost frame and binds it to its key in the frame below.
RefFrame(key) == [key |-> key, dict |-> <<>>, pending |-> PyNone]
RefClose(stack) ==
    LET n == Len(stack)
        top == stack[n]
        below == stack[n - 1]
    IN  [SubSeq(stack, 1, n - 1) EXCEPT ![n - 1] =
            [below EXCEPT !.dict =
                IF top.key # PyNone THEN DictSet(below.dict, top.key.v, PyMap(top.dict))
                ELSE below.dict]]
RefToken(stack, tok) ==
    LET n == Len(stack)
        top == stack[n]
    IN  IF tok.type = "STRING"
        THEN IF top.pending = PyNone
             THEN [stack EXCEPT ![n] = [top EXCEPT !.pending = PyStr(tok.value)]]
             ELSE [stack EXCEPT ![n] = [top EXCEPT
                      !.dict = DictSet(top.dict, top.pending.v, PyStr(tok.value)),
                      !.pending = PyNone]]
        ELSE IF tok.type = "LBRACE"
        THEN Append([stack EXCEPT ![n] = [top EXCEPT !.pending = PyNone]],
                    RefFrame(top.pending))
        ELSE RefClose(stack)
RECURSIVE RefCloseAll(_)
RefCloseAll(stack) == IF Len(stack) = 1 THEN stack[1].dict ELSE RefCloseAll(RefClose(stack))
RECURSIVE RefRun(_, _, _)
RefRun(tokens, j, stack) ==
    IF j > Len(tokens) THEN RefCloseAll(stack)
    ELSE RefRun(tokens, j + 1, RefToken(stack, tokens[j]))
FormedBeforeTruncation(tokens) == RefRun(tokens, 1, <<RefFrame(PyNone)>>)

\* the number of scopes open after the first n tokens
RECURSIVE OpenScopes(_, _)
OpenScopes(tokens, n) ==
    IF n = 0 THEN 0
    ELSE OpenScopes(tokens, n - 1)
         + (IF tokens[n].type = "LBRACE" THEN 1
            ELSE IF tokens[n].type = "RBRACE" THEN -1 ELSE 0)
\* no "}" without its "{", and at least one "{" without its "}"
MissingClosingBraces(tokens) ==
    /\ \A n \in 0..Len(tokens) : OpenScopes(tokens, n) >= 0
    /\ OpenScopes(tokens, Len(tokens)) >= 1

SteamRead(j) == LibraryManifests(st_reads[j][1])[st_reads[j][2]]
\* the manifest file the j-th read of scan_epic took
EpicRead(j) == EpicManifestPaths[ep_reads[j]]
NonEmptyStr(x) == IsStr(x) /\ x.v # <<>>
Missing(x) == x = PyNone \/ x = PyStr(<<>>)

\* the manifest carries appid, name and installdir, appid not blank
Carries(f) ==
    /\ NonEmptyStr(f.appid) /\ Strip(f.appid.v) # <<>>
    /\ NonEmptyStr(f.name)
    /\ NonEmptyStr(f.installdir)
\* no manifest read before the j-th has its appid
FirstOfAppid(j) ==
    \A i \in 1..(j - 1) :
        ~(IsStr(SteamRead(i).appid)
          /\ Strip(SteamRead(i).appid.v) = Strip(SteamRead(j).appid.v))
\* an entry for appid is in the results, named name when first is true
SteamEmitted(appid, name, first) ==
    \E k \in 1..Len(st_results) :
        /\ st_results[k].steam_appid = PyStr(appid)
        /\ st_results[k].kind = "steam"
        /\ st_results[k].exec_path =
              PyStr(<<"s", "t", "e", "a", "m", ":", "/", "/", "r", "u", "n", "g", "a", "m", "e", "i", "d", "/">>
                    \o appid)
        /\ first => st_results[k].name = name
\* root A with a library index that lists a library, one manifest in all
OneManifestLibrary ==
    /\ call[1] = "scan_steam"
    /\ fs_roots = <<"A">>
    /\ fs_steam["A"].index.exists
    /\ fs_steam["A"].index.entries # <<>>
    /\ Len(fs_steam["A"].manifests) = 1
    /\ fs_steam["B"].manifests = <<>>
ExactlyOneEntry ==
    (OneManifestLibrary /\ Carries(fs_steam["A"].manifests[1])
        /\ st_pc = "done" /\ st_max >= 1)
    => Len(st_results) = 1

\* C4 as the code has it: every manifest scan_steam reads that carries appid,
\* name and installdir as non-empty strings, the appid not blank, wrapped under
\* "AppState" or flat, has an entry in the results whose steam_appid is the
\* appid with the blanks at its ends stripped, whose kind is steam and whose
\* exec_path is steam://rungameid/ followed by that stripped appid; the entry
\* bears the manifest's name when no earlier manifest had the appid.  A root
\* whose index lists a library, with one such manifest in all, gives exactly
\* one entry.
C4_SteamEntry ==
    /\ \A j \in 1..Len(st_reads) :
          Carries(SteamRead(j))
          => SteamEmitted(Strip(SteamRead(j).appid.v), SteamRead(j).name, FirstOfAppid(j))
    /\ ExactlyOneEntry
\* the manifest whose appid is " 1 ", found through the root and again through
\* the index, has given the one entry of appid "1"
C4_Witness ==
    /\ st_pc = "done"
    /\ OneManifestLibrary
    /\ fs_steam["A"].manifests = <<ManifestPadded>>
    /\ Len(st_reads) = 2
    /\ Len(st_results) = 1
    /\ st_results[1].steam_appid = PyStr(<<"1">>)
    /\ st_results[1].name = PyStr(<<"M">>)
\* C4 as stated: steam_appid and the URI have the manifest's appid as it is
\* written, for every manifest whose appid, name and installdir are non-empty
C4_AsStated ==
    /\ \A j \in 1..Len(st_reads) :
          (NonEmptyStr(SteamRead(j).appid) /\ NonEmptyStr(SteamRead(j).name)
            /\ NonEmptyStr(SteamRead(j).installdir))
          => SteamEmitted(SteamRead(j).appid.v, SteamRead(j).name, FirstOfAppid(j))
    /\ ExactlyOneEntry

\* the JSON object's first field of the two that is truthy
EitherField(f, first, second) ==
    PyOr(DictGet(f.data.v, first, PyNone), DictGet(f.data.v, second, PyNone))
EpicAppName(f) == EitherField(f, <<"AppName">>, <<"CatalogItemId">>)
EpicDisplayName(f) == EitherField(f, <<"DisplayName">>, <<"AppTitle">>)
EpicInstallLocation(f) == EitherField(f, <<"InstallLocation">>, <<"InstallFolder">>)
\* a JSON object with an app name and a display name
EpicNamed(f) ==
    f.ok /\ IsMap(f.data) /\ Truthy(EpicAppName(f)) /\ Truthy(EpicDisplayName(f))
\* how many of the first j manifests read are such objects
NamedUpTo(j) == Cardinality({i \in 1..j : EpicNamed(EpicRead(i))})

\* C5: every JSON object scan_epic reads that has an app name (AppName, else
\* CatalogItemId) and a display name (DisplayName, else AppTitle) gives one
\* entry, in the order read, with that epic_appname, that name, kind epic and
\* the URI of the app name; with no install location, or one that is no
\* directory there is, fallback_exe is None.
C5_EpicEntry ==
    \A j \in 1..Len(ep_reads) :
        EpicNamed(EpicRead(j)) =>
            /\ Len(ep_results) >= NamedUpTo(j)
            /\ LET e == ep_results[NamedUpTo(j)]
                    f == EpicRead(j)
               IN  /\ e.epic_appname = EpicAppName(f)
                   /\ e.name = EpicDisplayName(f)
                   /\ e.kind = "epic"
                   /\ e.exec_path =
                        PyStr(<<"c", "o", "m", ".", "e", "p", "i", "c", "g", "a", "m", "e", "s", ".">>
                              \o <<"l", "a", "u", "n", "c", "h", "e", "r", ":", "/", "/", "a", "p", "p", "s", "/">>
                              \o StrOf(EpicAppName(f))
                              \o <<"?", "a", "c", "t", "i", "o", "n", "=", "l", "a", "u", "n", "c", "h">>)
                   /\ (~Truthy(EpicInstallLocation(f)) \/ ~fs_folder.exists)
                        => e.fallback_exe = PyNone

\* a Steam manifest lacks a required field: appid, installdir, or name with no
\* name under UserConfig either
SteamLacks(f) ==
    \/ Missing(f.appid)
    \/ Missing(f.installdir)
    \/ /\ Missing(f.name)
       /\ ~(IsMap(f.user_config)
            /\ \E k \in 1..Len(f.user_config.v) :
                  f.user_config.v[k][1] = <<"name">> /\ f.user_config.v[k][2] # <<>>)
\* an Epic manifest object lacks the app name or the display name
EpicLacks(f) ==
    f.ok /\ IsMap(f.data) /\ ~(Truthy(EpicAppName(f)) /\ Truthy(EpicDisplayName(f)))

\* C6: the read of a manifest that lacks a required field adds no entry and
\* the scan goes on to the next manifest of the directory, as if the manifest
\* were not there.
C6_SkippedAndContinued ==
    [][/\ (st_reads' # st_reads /\ st_reads' # <<>>
            /\ SteamLacks(LibraryManifests(st_reads'[Len(st_reads')][1])[st_reads'[Len(st_reads')][2]]))
          => (st_pc' = "manifests" /\ st_results' = st_results /\ st_seen' = st_seen)
       /\ (ep_reads' # ep_reads /\ ep_reads' # <<>>
            /\ EpicLacks(EpicManifestPaths[ep_reads'[Len(ep_reads')]]))
          => (ep_pc' = "files" /\ ep_results' = ep_results)]_vars

\* C7: no exception escapes scan_steam or scan_epic, whatever the manifest
\* files hold.
C7_NoExceptionEscapes == st_pc # "raised" /\ ep_pc # "raised"

\* the manifests there are to read, over all libraries
AllRead ==
    \A j \in 1..Len(st_libs) :
        LibraryExists(st_libs[j]) =>
            \A k \in 1..Len(LibraryManifests(st_libs[j])) :
                \E r \in 1..Len(st_reads) : st_reads[r] = <<st_libs[j], k>>

\* C8: scan_steam and scan_epic never hold more than max_items entries, none
\* when max_items <= 0, and once max_items entries are held no manifest is
\* read any more.
C8_MaxItems ==
    /\ [](/\ Len(st_results) <= Max(0, st_max)
          /\ Len(ep_results) <= Max(0, ep_max))
    /\ [][/\ Len(st_results) >= st_max => st_reads' = st_reads
          /\ Len(ep_results) >= ep_max => ep_reads' = ep_reads]_vars
\* scan_steam(1) returned its one entry with a manifest left unread
C8_Witness ==
    /\ call = <<"scan_steam", 1>>
    /\ st_pc = "done"
    /\ Len(st_results) = 1
    /\ ~AllRead

\* the identity initial_discovery gives an entry
Identity(e) ==
    <<e.kind,
      IF e.kind = "steam" THEN e.steam_appid
      ELSE IF e.kind = "epic" THEN e.epic_appname
      ELSE e.exec_path>>
\* the entries of a list whose identity no earlier entry has, in order
FirstSeen(entries) ==
    LET first == {j \in 1..Len(entries) :
                    \A i \in 1..(j - 1) : Identity(entries[i]) # Identity(entries[j])}
        RECURSIVE Pick(_)
        Pick(j) == IF j > Len(entries) THEN <<>>
                   ELSE (IF j \in first THEN <<entries[j]>> ELSE <<>>) \o Pick(j + 1)
    IN  Pick(1)

\* C9: initial_discovery(limit), limit >= 0, calls scan_steam(limit), then
\* scan_epic(max(0, limit - number of Steam entries)), and returns the Steam
\* entries followed by the Epic entries, each identity once, the first entry
\* of it, in first-seen order; the result has at most limit entries, no two of
\* one identity.
C9_InitialDiscovery ==
    call[1] = "initial_discovery" =>
        /\ st_pc # "idle" => st_max = call[2]
        /\ disc_pc \in {"idle", "steam"} => ep_pc = "idle"
        /\ ep_pc # "idle" =>
              /\ st_pc = "done"
              /\ ep_max = (IF call[2] - Len(st_results) > 0
                           THEN call[2] - Len(st_results) ELSE 0)
        /\ disc_pc = "done" =>
              /\ st_pc = "done" /\ ep_pc = "done"
              /\ disc_result = FirstSeen(st_results \o ep_results)
              /\ Len(disc_result) <= call[2]
              /\ \A i, j \in 1..Len(disc_result) :
                    Identity(disc_result[i]) = Identity(disc_result[j]) => i = j
\* two Epic manifests of one app name: the first is returned, after a Steam
\* entry
C9_Witness ==
    /\ disc_pc = "done"
    /\ Len(st_results) = 1
    /\ Len(ep_results) = 2
    /\ Identity(ep_results[1]) = Identity(ep_results[2])
    /\ ep_results[1] # ep_results[2]
    /\ disc_result = <<st_results[1], ep_results[1]>>

(***************************************************************************)
(* auto_scan: what a scan appends to the catalog                           *)
(***************************************************************************)
\* the games of after that come behind those of before
Appended(before, after) == SubSeq(after, Len(before) + 1, Len(after))

\* C10: an auto-scan leaves every game that was in the store where it was
\* and as it was, and appends only games whose discovery key no game of the
\* store had before the scan and no other game appended by the scan has.
C10_MergeAddsNew ==
    [][as_pc = "discovery" =>
        /\ Len(store') >= Len(store)
        /\ SubSeq(store', 1, Len(store)) = store
        /\ LET new == Appended(store, store')
           IN  \A j \in 1..Len(new) :
                   /\ \A i \in 1..Len(store) :
                         DiscoveryKey(store[i]) # DiscoveryKey(new[j])
                   /\ \A k \in 1..Len(new) :
                         DiscoveryKey(new[k]) = DiscoveryKey(new[j]) => k = j]_vars
\* a scan found three games, one of them of a key the store had, and
\* appended the two others
C10_Witness ==
    /\ as_pc = "idle"
    /\ as_msg = <<"added", 2>>
    /\ Len(disc_result) = 3
    /\ Len(store) >= 3
    /\ \E i \in 1..(Len(store) - 2) :
          DiscoveryKey(store[i]) = DiscoveryKey(ToGame(disc_result[1]))

\* C11: an auto-scan that follows another over the same manifests appends
\* nothing: the store is as the scan before left it, the number of rows with
\* it, and the scan reports that nothing new was found; so for every further
\* scan.
C11_RescanAddsNothing ==
    [][(as_pc = "discovery" /\ as_msg # <<>>) =>
        /\ store' = store
        /\ Len(store') = Len(store)
        /\ (as_pc' = "idle" /\ as_msg # <<"critical">>) => as_msg' = <<"nothing new">>]_vars
\* a first scan appended two games, a later scan found the same three and
\* appended nothing
C11_Witness ==
    /\ as_pc = "idle"
    /\ as_msg = <<"nothing new">>
    /\ uuids = 2
    /\ Len(disc_result) = 3
    /\ Len(store) >= 3

(***************************************************************************)
(* The rows of the catalog: origin, vendor id and dedup identity           *)
(***************************************************************************)
\* the origin of a row is a vendor, or the row is a manual one
Vendor(game) == game.kind \in {"steam", "epic"}
VendorId(game) == IF game.kind = "steam" THEN game.steam_appid ELSE game.epic_appname

\* C12: the dedup identity of a row whose origin is a vendor is the pair
\* (origin, vendor id), that of a manual row is ("path", exec_path lower-cased);
\* two vendor rows have the same identity iff they have the same origin and
\* the same vendor id; the identity of a vendor row is never that of a manual
\* row.
C12_DedupIdentity ==
    \A i, j \in 1..Len(store) :
        LET g == store[i]
            h == store[j]
        IN  /\ Vendor(g) => DiscoveryKey(g) = <<g.kind, VendorId(g)>>
            /\ ~Vendor(g) => DiscoveryKey(g) = <<"path", PyStr(Lower(g.exec_path.v))>>
            /\ (Vendor(g) /\ Vendor(h)) =>
                   (DiscoveryKey(g) = DiscoveryKey(h)
                        <=> (g.kind = h.kind /\ VendorId(g) = VendorId(h)))
            /\ (Vendor(g) /\ ~Vendor(h)) => DiscoveryKey(g) # DiscoveryKey(h)

\* C13: every entry scan_steam holds has a non-empty steam_appid, every entry
\* scan_epic holds a non-empty epic_appname, and every row of the catalog of
\* kind steam or epic has a non-empty vendor id, after any run of auto-scans,
\* dialog additions, drops and edits.
C13_VendorHasId ==
    /\ \A j \in 1..Len(st_results) :
           st_results[j].kind = "steam" /\ Truthy(st_results[j].steam_appid)
    /\ \A j \in 1..Len(ep_results) :
           ep_results[j].kind = "epic" /\ Truthy(ep_results[j].epic_appname)
    /\ \A i \in 1..Len(store) : Vendor(store[i]) => Truthy(VendorId(store[i]))

(***************************************************************************)
(* build_cmd: what it returns for a URI, a shortcut, a path                *)
(***************************************************************************)
\* the step in which the call of launch under way runs build_cmd
BuildStep == ln_pc = "build" /\ ln_pc' = "start"
\* what that call of build_cmd returned
Built == ln_cmd'[Len(ln_cmd')]
\* the answer of the host to the resolution of the shortcut in that step
BuiltRun == ln_os'[Len(ln_os')].run
\* the n-th field the script wrote: TargetPath, Arguments, WorkingDirectory
Field(run, n) ==
    LET lines == SplitOn(run.stdout, {"\n"}, <<>>) IN
    IF Len(lines) >= n THEN Strip(lines[n]) ELSE <<>>
\* the facility gave no target: it could not be run, it failed, or the
\* shortcut has none
NoTarget(run) == run.raised \/ run.returncode # 0 \/ Field(run, 1) = <<>>
\* the path given, as a path of the host
GivenPath == Path(Strip(ln_args.exec_path), platform)

\* C14: for an exec_path that, stripped and lower-cased, starts with steam://
\* or com.epicgames.launcher://, build_cmd returns the exec_path stripped of
\* the blanks around it, the args of the caller as they are and the working
\* directory "", and resolves no shortcut.
C14_UriTarget ==
    [][(BuildStep /\ \E prefix \in {SteamPrefix, EpicPrefix} :
                        StartsWith(Lower(Strip(ln_args.exec_path)), prefix)) =>
          /\ Len(ln_cmd') = Len(ln_cmd) + 1
          /\ Built = [file |-> Strip(ln_args.exec_path), params |-> ln_args.args, cwd |-> <<>>]
          /\ ln_os' = ln_os]_vars
\* build_cmd has returned for a URI given with blanks around it
C14_Witness ==
    /\ ln_pc = "start"
    /\ ln_args.exec_path = <<" ">> \o UriSteam(<<"1">>) \o <<" ">>
    /\ ln_args.args = PyStr(<<"-", "w">>)
    /\ ln_cmd = <<[file |-> UriSteam(<<"1">>), params |-> PyStr(<<"-", "w">>), cwd |-> <<>>]>>
    /\ ln_os = <<>>
\* C14 as stated: the exec_path that starts with a prefix is returned as it
\* was given
C14_AsStated ==
    [][(BuildStep /\ \E prefix \in {SteamPrefix, EpicPrefix} :
                        StartsWith(ln_args.exec_path, prefix)) =>
          /\ Built = [file |-> ln_args.exec_path, params |-> ln_args.args, cwd |-> <<>>]
          /\ ln_os' = ln_os]_vars

\* C15: when the resolution of a shortcut gives no target, build_cmd returns
\* the path of the shortcut for the target, the args of the caller as they
\* are, and the parent directory of the shortcut for the working directory.
C15_ResolutionFailed ==
    [][(BuildStep /\ IsShortcut(ln_args.exec_path, platform) /\ NoTarget(BuiltRun)) =>
          Built = [file |-> PathStr(GivenPath), params |-> ln_args.args,
                   cwd |-> PathStr(PathParent(GivenPath))]]_vars

\* embedded + " " + caller, the one that is present, or None
Combined(embedded, caller) ==
    IF embedded # <<>> /\ Truthy(caller) THEN PyStr(embedded \o <<" ">> \o caller.v)
    ELSE IF embedded # <<>> THEN PyStr(embedded)
    ELSE IF Truthy(caller) THEN caller
    ELSE PyNone
\* C16: when the resolution of a shortcut gives a target, the arguments
\* build_cmd returns are the Arguments of the shortcut and the args of the
\* caller combined: both present, the first, a space, the second; one present,
\* that one; none present, None.
C16_MergedArgs ==
    [][(BuildStep /\ IsShortcut(ln_args.exec_path, platform) /\ ~NoTarget(BuiltRun)) =>
          Built.params = Combined(Field(BuiltRun, 2), ln_args.args)]_vars

\* C17: for a target that is no URI the working directory build_cmd returns
\* is the WorkingDirectory of the shortcut when the resolution gave a target
\* and that directory is not empty, else the parent of the final target path
\* (the target of the shortcut when the resolution gave one, else the path
\* given); it is never empty.
C17_WorkingDir ==
    [][(BuildStep /\ ~IsUri(Strip(ln_args.exec_path))) =>
          LET resolved == IsShortcut(ln_args.exec_path, platform) /\ ~NoTarget(BuiltRun)
              final == IF resolved THEN Path(Field(BuiltRun, 1), platform) ELSE GivenPath
          IN  /\ Built.cwd # <<>>
              /\ Built.cwd = IF resolved /\ Field(BuiltRun, 3) # <<>> THEN Field(BuiltRun, 3)
                             ELSE PathStr(PathParent(final))]_vars

(***************************************************************************)
(* launch and launch_game: the status and the calls made                   *)
(***************************************************************************)
\* C18: launch never raises, whatever the target, the argument string, the
\* elevation flag and the platform.
C18_NeverRaises == ln_pc # "raised"

\* the step in which a call of launch returns
ReturnStep == Len(ln_status') = Len(ln_status) + 1
Returned == ln_status'[Len(ln_status')]
\* the call to the host made in that step, if one was made
HostCalled == Len(ln_os') = Len(ln_os) + 1
HostCall == ln_os'[Len(ln_os')]
\* C19: the status launch returns is 0 exactly when the call it made to the
\* host (os.startfile, ShellExecuteExW or Popen) reported success, and a
\* positive integer otherwise: also when ShellExecuteExW failed and the last
\* error reads 0, and when no call was made.
C19_StatusZeroIffSuccess ==
    [][ReturnStep =>
          /\ Returned \in Nat
          /\ Returned = 0 <=>
                (/\ HostCalled
                 /\ HostCall.call \in {"startfile", "ShellExecuteExW", "Popen"}
                 /\ HostCall.ok)]_vars
\* ShellExecuteExW failed, the last error read 0, and launch returned 1
C19_Witness ==
    /\ ln_pc = "returned"
    /\ ln_os # <<>>
    /\ ln_os[Len(ln_os)].call = "ShellExecuteExW"
    /\ ~ln_os[Len(ln_os)].ok
    /\ ln_os[Len(ln_os)].error = 0
    /\ ln_status = <<1>>

\* C20: off Windows the launch of a catalog entry whose target is a URI
\* reports failure, and no call is made to the host for it.
C20_UriOffWindows ==
    (/\ call[1] = "launch_game"
     /\ ln_pc = "done"
     /\ ~IsWin(platform)
     /\ IsUri(Strip(ln_game.exec_path.v))) =>
        /\ ln_result = <<FALSE>>
        /\ ln_os = <<>>

\* the launches launch_game has attempted, each with whether it succeeded:
\* the calls of launch on Windows, the call of launch_path elsewhere
Attempts ==
    IF IsWin(platform) THEN [k \in 1..Len(ln_status) |-> ln_status[k] = 0]
    ELSE [k \in 1..Len(ln_os) |-> ln_os[k].ok]
\* C21: on every platform, when launch_game returns it has attempted one
\* launch, or two: two exactly when the first failed and the game has a
\* fallback_exe, the second one being of the fallback path with the args and
\* the elevation flag of the game; and it returns whether the last attempt
\* succeeded.
C21_FallbackRetry ==
    (call[1] = "launch_game" /\ ln_pc = "done") =>
        /\ Len(Attempts) \in {1, 2}
        /\ Len(Attempts) = 2 <=> (~Attempts[1] /\ Truthy(ln_game.fallback_exe))
        /\ Len(Attempts) = 2 =>
               ln_args = LaunchArgs(ln_game.fallback_exe.v, ln_game.args, ln_game.run_as_admin)
        /\ ln_result = <<Attempts[Len(Attempts)]>>

(***************************************************************************)
(* C22                                                                     *)
(***************************************************************************)
\* the place of the last pair of the scope that has the key
LastPair(pairs, key) ==
    CHOOSE j \in 1..Len(pairs) :
        /\ pairs[j][1] = key
        /\ \A h \in (j + 1)..Len(pairs) : pairs[h][1] # key
\* the mapping binds the keys of the pairs, each to the value of its last
\* pair; a block is bound as the mapping of its own pairs
RECURSIVE LastWins(_, _)
LastWins(d, pairs) ==
    /\ DictKeys(d) = {pairs[j][1] : j \in 1..Len(pairs)}
    /\ Len(d) = Cardinality(DictKeys(d))
    /\ \A key \in DictKeys(d) :
        LET value == pairs[LastPair(pairs, key)][2]
            bound == DictGet(d, key, PyNone)
        IN  IF IsStr(value) THEN bound = value
            ELSE bound.t = "map" /\ LastWins(bound.v, value.v)
\* C22: when parse_vdf has returned on the text of a scope in which keys
\* are completed several times, by strings and by blocks in any mix, the
\* mapping binds every key to the value of its last completed pair, and a
\* block binds its own keys the same way, whatever the scope around it binds.
C22_LastWriteWins ==
    (vdf_pc = "done" /\ Len(call) = 2) =>
        /\ vdf_result.t = "map"
        /\ LastWins(vdf_result.v, call[2])
\* key a is completed by a string, then by a block that binds a itself, then
\* by another string
C22_Witness ==
    /\ vdf_pc = "done"
    /\ call = <<"parse_vdf",
                <<<<<<"a">>, PyStr(<<"a">>)>>,
                  <<<<"a">>, PyMap(<<<<<<"a">>, PyStr(<<"b">>)>>, <<<<"a">>, PyStr(<<"a">>)>>>>)>>,
                  <<<<"a">>, PyStr(<<"b">>)>>>>>>
    /\ vdf_result = PyMap(<<<<<<"a">>, PyStr(<<"b">>)>>>>)

(***************************************************************************)
(* C23                                                                     *)
(***************************************************************************)
\* the backslashes that stand right before position p (0-based) of a run
\* opened at position open
BackslashesBefore(text, open, p) ==
    CHOOSE n \in 0..(p - open - 1) :
        /\ \A h \in (p - n)..(p - 1) : CharAt(text, h) = "\\"
        /\ (p - n - 1 > open) => CharAt(text, p - n - 1) # "\\"
\* the character at p is escaped: an odd number of backslashes stands before it
IsEscaped(text, open, p) == BackslashesBefore(text, open, p) % 2 = 1
\* the quotes after position open that are not escaped
ClosingQuotes(text, open) ==
    {p \in (open + 1)..(Len(text) - 1) :
        CharAt(text, p) = "\"" /\ ~IsEscaped(text, open, p)}
ClosingQuote(text, open) ==
    CHOOSE p \in ClosingQuotes(text, open) : \A q \in ClosingQuotes(text, open) : p <= q
\* the characters between the quotes, less the backslashes that escape
QuotedValue(text, open) ==
    LET kept == {p \in (open + 1)..(ClosingQuote(text, open) - 1) :
                    CharAt(text, p) = "\\" => IsEscaped(text, open, p)}
        Nth(k) == CHOOSE p \in kept : Cardinality({q \in kept : q < p}) = k - 1
    IN  [k \in 1..Cardinality(kept) |-> CharAt(text, Nth(k))]
\* the main loop is at a quote and the run is closed further on
AtQuotedRun ==
    /\ vdf_pc = "tokenize"
    /\ vdf_i < Len(vdf_text)
    /\ CharAt(vdf_text, vdf_i) = "\""
    /\ ClosingQuotes(vdf_text, vdf_i) # {}
\* C23: when the tokenizer's main loop meets a double quote whose run is
\* closed, the iteration appends exactly one STRING token and leaves the
\* position right after the closing quote; the token's value is the
\* characters between the quotes with every escaping backslash removed and
\* the character after it kept, so an escaped quote does not end the run and
\* blanks, braces and // inside the quotes are characters of the value.
C23_QuotedRun ==
    [][(AtQuotedRun /\ TokenizeStep) =>
        /\ vdf_tokens' = Append(vdf_tokens, StringToken(QuotedValue(vdf_text, vdf_i)))
        /\ vdf_i' = ClosingQuote(vdf_text, vdf_i) + 1
        /\ vdf_pc' = "tokenize"]_vars
\* the run "\"{" holds an escaped quote and a brace
C23_Witness ==
    /\ vdf_text = Quoted(<<"\\", "\"", "{">>)
    /\ vdf_tokens = <<StringToken(<<"\"", "{">>)>>
    /\ vdf_i = 5

(***************************************************************************)
(* C24                                                                     *)
(***************************************************************************)
\* the fields a manifest file carries, as the mapping they stand for
ManifestNode(f) ==
    LET Carried(key, value) ==
            IF value = PyNone THEN <<>>
            ELSE IF IsStr(value) THEN <<<<key, value>>>>
            ELSE <<<<key, PyMap(PairsDict(value.v, <<>>))>>>>
    IN  Carried(<<"appid">>, f.appid) \o Carried(<<"name">>, f.name)
        \o Carried(<<"UserConfig">>, f.user_config) \o Carried(<<"installdir">>, f.installdir)
\* what the j-th read of scan_steam gives when nothing was seen before it:
\* an entry when the manifest is complete, and the key it declares
ReadAlone(j) ==
    LET node == ManifestNode(SteamRead(j))
        appid == SteamAppid(node)
        name == SteamName(node)
        install_dir == SteamInstallDir(node)
    IN  IF ~name.raised /\ SteamRequired(appid, name.value, install_dir) /\ IsStr(install_dir)
        THEN [kind |-> "emit", key |-> <<"steam", appid>>,
              entry |-> SteamEntry(appid, name.value, install_dir, st_reads[j][1])]
        ELSE [kind |-> "none", key |-> <<"steam", appid>>]
\* the reads whose manifest is complete and declares the appid
Declaring(appid) ==
    {j \in 1..Len(st_reads) :
        LET o == ReadAlone(j) IN o.kind = "emit" /\ o.key = <<"steam", appid>>}
\* the first of them
FirstDeclaring(appid) ==
    LET reads == Declaring(appid) IN CHOOSE j \in reads : \A i \in reads : j <= i
\* C24: at every moment of a scan no two entries scan_steam holds have the
\* same steam_appid, however often a library is reached and however many
\* manifests declare the appid, and each entry is the one made from the first
\* manifest read, in scan order, that is complete and declares that appid.
C24_OneEntryPerAppid ==
    /\ \A j, k \in 1..Len(st_results) :
          st_results[j].steam_appid = st_results[k].steam_appid => j = k
    /\ \A k \in 1..Len(st_results) :
          LET reads == Declaring(st_results[k].steam_appid.v)
          IN  /\ reads # {}
              /\ st_results[k] = ReadAlone(CHOOSE j \in reads : \A i \in reads : j <= i).entry
\* the library of root A, also listed in the index, holds two manifests that
\* declare appid 1: four reads, and the one entry is that of the first manifest
C24_Witness ==
    /\ call[1] = "scan_steam"
    /\ st_pc = "done"
    /\ fs_roots = <<"A">>
    /\ fs_steam["A"].manifests = <<ManifestPadded, Manifest1>>
    /\ Len(st_reads) = 4
    /\ st_reads[3] = st_reads[1]
    /\ Len(st_results) = 1
    /\ st_results[1].steam_appid = PyStr(<<"1">>)
    /\ st_results[1].name = PyStr(<<"M">>)

(***************************************************************************)
(* C25                                                                     *)
(***************************************************************************)
\* the install path of the k-th entry: library / "common" / installdir of the
\* manifest the entry was made from
InstallPath(k) ==
    LET j == FirstDeclaring(st_results[k].steam_appid.v)
    IN  st_reads[j][1] \o <<"/common/">> \o SteamRead(j).installdir.v
\* the first of the names in sorted order
FirstName(names) ==
    CHOOSE n \in names :
        \A m \in names : \E i, j \in 1..Len(ExeOrder) :
            ExeOrder[i] = n /\ ExeOrder[j] = m /\ i <= j
\* the child directories of the install folder
Subdirectories == {c \in {fs_folder.children[j] : j \in 1..Len(fs_folder.children)} : c.is_dir}
\* C25: the fallback_exe of an entry of scan_steam is the guess made on the
\* install folder.  It is None when the folder does not exist or is not a
\* directory.  When the folder has entries named *.exe right inside it, the
\* guess is the first of them in sorted order, whatever its subdirectories
\* hold.  When it has none, the guess is a *.exe right inside one of its
\* subdirectories if some subdirectory holds one, and None if none does; what
\* lies deeper is never the guess.
C25_DirectBeforeNested ==
    \A k \in 1..Len(st_results) :
        LET guess == st_results[k].fallback_exe
            direct == DirectMatches(fs_folder)
        IN  IF ~fs_folder.exists \/ ~fs_folder.is_dir THEN guess = PyNone
            ELSE IF direct # {}
                 THEN guess = PyStr(InstallPath(k) \o <<"/", FirstName(direct)>>)
            ELSE IF \E c \in Subdirectories : c.exes # {}
                 THEN \E c \in Subdirectories : \E n \in c.exes :
                        guess = PyStr(InstallPath(k) \o <<"/", c.name, "/", n>>)
            ELSE guess = PyNone
\* the folder holds b.exe and a subdirectory bin that holds a.exe: the guess is
\* b.exe
C25_Witness ==
    /\ st_pc = "done"
    /\ fs_folder = Folder({"b.exe"}, <<Child("bin", TRUE, {"a.exe"})>>)
    /\ Len(st_results) = 1
    /\ st_results[1].fallback_exe = PyStr(<<"A", "/steamapps", "/common/", "d", "/", "b.exe">>)

(***************************************************************************)
(* C26                                                                     *)
(***************************************************************************)
\* the string a block of the index has under the key, "" when it has none
FieldOf(block, key) ==
    IF \E j \in 1..Len(block) : block[j][1] = key
    THEN block[CHOOSE j \in 1..Len(block) : block[j][1] = key][2]
    ELSE <<>>
\* what an entry of the index file contributes: a string itself, a block its
\* path, else its libraryfolderpath, nothing when both are absent or empty
Contributes(value) ==
    IF IsStr(value) THEN <<value.v>>
    ELSE IF FieldOf(value.v, <<"path">>) # <<>> THEN <<FieldOf(value.v, <<"path">>)>>
    ELSE IF FieldOf(value.v, <<"libraryfolderpath">>) # <<>>
         THEN <<FieldOf(value.v, <<"libraryfolderpath">>)>>
    ELSE <<>>
RECURSIVE Listed(_)
Listed(entries) ==
    IF entries = <<>> THEN <<>>
    ELSE Contributes(entries[1][2]) \o Listed(Tail(entries))
\* the root scan_steam is at
ScannedRoot == fs_roots[st_root]
\* C26: once scan_steam has taken the libraries of a root, they are the
\* root's own steamapps directory followed by <path>/steamapps for every path
\* the index file lists, an entry that is a block giving its path, else its
\* libraryfolderpath, none when both are absent or empty, and an entry that
\* is a string giving that string, the index being wrapped under
\* "libraryfolders" or not; with no index file, or one that lists nothing,
\* the root's own steamapps directory is the one library, and its manifests
\* are read.
C26_LibraryPaths ==
    (call[1] = "scan_steam" /\ st_pc \in {"libs", "manifests", "done"} /\ st_root > 0) =>
        LET index == fs_steam[ScannedRoot].index
            listed == IF index.exists THEN Listed(index.entries) ELSE <<>>
        IN  /\ st_libs = <<SteamApps(<<ScannedRoot>>)>>
                          \o [j \in 1..Len(listed) |-> SteamApps(listed[j])]
            /\ (st_pc = "done" /\ ~LimitReached(st_results, st_max)) => AllRead
\* an index, not wrapped, with a block that has an empty path and a
\* libraryfolderpath, and a string: both libraries follow the root's own
C26_Witness ==
    /\ st_pc = "done"
    /\ fs_steam["A"].index =
          Index(FALSE, <<<<<<"0">>, Block(<<<<<<"path">>, <<>>>>, <<<<"libraryfolderpath">>, <<"B">>>>>>)>>,
                         <<<<"1">>, PyStr(<<"B">>)>>>>)
    /\ st_libs = <<<<"A", "/steamapps">>, <<"B", "/steamapps">>, <<"B", "/steamapps">>>>
    /\ Len(st_results) = 2

(***************************************************************************)
(* C27                                                                     *)
(***************************************************************************)
\* the pairs the text stands for, by what the stray between them is
StrayPairs(before, stray, after) ==
    CASE stray.kind = "close" -> before
      [] stray.kind = "key" -> before
      [] stray.kind = "block" -> before \o after
      [] stray.kind = "inner" -> before \o <<<<<<"a">>, PyMap(stray.pairs)>>>> \o after
\* C27: when parse_vdf has returned on a text with a "}" that nothing opened
\* at top level, the mapping is exactly that of the pairs before the "}" and
\* nothing after it is read, a key left pending before the "}" being dropped;
\* a key left pending at the "}" that ends a block is dropped and the scope
\* around goes on; a block with no key before it is consumed whole and adds
\* no key, the pairs after it being bound as if it were not there.
C27_UnmatchedBraces ==
    (vdf_pc = "done" /\ Len(call) = 4) =>
        /\ vdf_result.t = "map"
        /\ LastWins(vdf_result.v, StrayPairs(call[2], call[3], call[4]))
\* "a" "a" } "b" "b": the pair after the brace is not read
C27_Witness ==
    /\ vdf_pc = "done"
    /\ call = <<"parse_vdf", <<<<<<"a">>, PyStr(<<"a">>)>>>>, [kind |-> "close"],
                <<<<<<"b">>, PyStr(<<"b">>)>>>>>>
    /\ vdf_result = PyMap(<<<<<<"a">>, PyStr(<<"a">>)>>>>)

(***************************************************************************)
(* C28                                                                     *)
(***************************************************************************)
\* _parse_tokens called at start returns an index from start to the token count
IndexInRange(start) ==
    LET r == ParseTokens(vdf_tokens, start)
    IN  start <= r.idx /\ r.idx <= Len(vdf_tokens)
\* C28: every iteration of the tokenizer's main loop moves the position
\* forward by at least one character and not past the end of the text; on the
\* tokens of the text, _parse_tokens called at any start index returns an
\* index from that start to the token count, so the loop that made a nested
\* call at a "{" goes on strictly after that "{"; and parse_vdf returns.
C28_Terminates ==
    /\ [][TokenizeStep => (vdf_i < vdf_i' /\ vdf_i' <= Len(vdf_text))]_vars
    /\ [](vdf_pc \in {"parse", "done"} =>
            /\ \A start \in 0..Len(vdf_tokens) : IndexInRange(start)
            /\ \A p \in 0..(Len(vdf_tokens) - 1) :
                  vdf_tokens[p + 1].type = "LBRACE" => ParseTokens(vdf_tokens, p + 1).idx > p)
    /\ <>(vdf_pc = "done")
\* a{"a: a bare token, a block left open and a quote left open, parsed
C28_Witness ==
    /\ vdf_pc = "done"
    /\ vdf_text = <<"a", "{", "\"", "a">>
    /\ vdf_i = 4
    /\ vdf_tokens = <<StringToken(<<"a">>), LBraceToken, StringToken(<<"a">>)>>
    /\ vdf_result = PyMap(<<<<<<"a">>, PyMap(<<>>)>>>>)

=============================================================================
